---- MODULE Spec2Model ----
\* Magnet Boots Mayhem: the physics and surface-adhesion core (src/src/physics.py,
\* src/src/platforms.py, src/src/player.py) and the per-tick driver
\* (src/src/level.py, src/src/game.py).
\*
\* Numbers.  The program computes with Python floats.  Here positions and
\* velocities are pixels held as integers that are multiples of Resolution; all
\* level data, speeds and forces are chosen on that grid, so additions and
\* comparisons are exact.  The only operation that leaves the grid is the
\* multiplication by a friction factor, which is rounded back to it (RoundToGrid).
EXTENDS Integers, Sequences, FiniteSets, TLC

VARIABLES
    player,      \* Game.player: the Player object (a record of its attributes)
    levels,      \* Game.levels: the Level objects with their platforms, magnets and enemies
    game,        \* the other attributes of the Game object
    input,       \* Game.input_handler: the InputHandler object
    last         \* history: the last operation, its return value, the state it started in

vars == <<player, levels, game, input, last>>

\* Game.current_level.platforms: the list that owns the Platform objects
platforms == levels[game.current_level + 1].platforms

-----------------------------------------------------------------------------
\* constants.py (not part of the available sources; values in pixels per tick)

MAGNETIC_STATE_NORMAL == "normal"
MAGNETIC_STATE_STICKING == "sticking"
ORIENTATION_FLOOR == "floor"
ORIENTATION_CEILING == "ceiling"
ORIENTATION_WALL_LEFT == "wall_left"
ORIENTATION_WALL_RIGHT == "wall_right"
Orientations ==
    {ORIENTATION_FLOOR, ORIENTATION_CEILING, ORIENTATION_WALL_LEFT, ORIENTATION_WALL_RIGHT}

PLAYER_WIDTH == 32
PLAYER_HEIGHT == 48
PLAYER_SPEED == 16
PLAYER_JUMP_STRENGTH == 32
GRAVITY == 16
MAX_FALL_SPEED == 32
\* the two decay factors, in percent
FRICTION == 50
AIR_RESISTANCE == 75

\* Player.__init__: self.max_jumps = 2
max_jumps == 2
\* Player.update: is_player_on_surface(self.rect, tolerance=10)
StickTolerance == 10

-----------------------------------------------------------------------------
\* Arithmetic helpers

Abs(n) == IF n < 0 THEN -n ELSE n
Min2(a, b) == IF a <= b THEN a ELSE b
Min4(a, b, c, d) == Min2(Min2(a, b), Min2(c, d))

\* data.get(key, default) of a Python dict, a record here
dict_get(data, key, default) == IF key \in DOMAIN data THEN data[key] ELSE default

\* grid step of the fixed-point representation of a float
Resolution == 16

\* num / den (den > 0) rounded to the nearest multiple of Resolution, ties toward zero
RoundRatio(num, den) ==
    LET mag == Abs(num)
        k == (2 * mag + den * Resolution - 1) \div (2 * den * Resolution)
    IN  IF num < 0 THEN -(k * Resolution) ELSE k * Resolution

\* n / 100 rounded to the grid: the product of a velocity and a factor in percent
RoundToGrid(n) == RoundRatio(n, 100)

-----------------------------------------------------------------------------
\* physics.py

\* apply_gravity() without the cap of MAX_FALL_SPEED
apply_gravity_unclamped(velocity_y, magnetic_state) ==
    IF magnetic_state = MAGNETIC_STATE_STICKING
    THEN 0
    ELSE velocity_y + GRAVITY

\* apply_gravity(velocity_y, magnetic_state)
apply_gravity(velocity_y, magnetic_state) ==
    IF magnetic_state = MAGNETIC_STATE_STICKING
    THEN 0
    ELSE Min2(velocity_y + GRAVITY, MAX_FALL_SPEED)

\* apply_friction(velocity_x, on_ground)
apply_friction(velocity_x, on_ground) ==
    IF on_ground
    THEN RoundToGrid(velocity_x * FRICTION)
    ELSE RoundToGrid(velocity_x * AIR_RESISTANCE)

\* check_rect_collision() with <= and >= in place of < and >
check_rect_collision_inclusive(rect1, rect2) ==
    /\ rect1[1] <= rect2[1] + rect2[3]
    /\ rect1[1] + rect1[3] >= rect2[1]
    /\ rect1[2] <= rect2[2] + rect2[4]
    /\ rect1[2] + rect1[4] >= rect2[2]

\* check_rect_collision(rect1, rect2); a rect is <<x, y, width, height>>
check_rect_collision(rect1, rect2) ==
    /\ rect1[1] < rect2[1] + rect2[3]
    /\ rect1[1] + rect1[3] > rect2[1]
    /\ rect1[2] < rect2[2] + rect2[4]
    /\ rect1[2] + rect1[4] > rect2[2]

\* resolve_collision() without the tests of the velocity
resolve_collision_unguarded(player_rect, platform_rect, velocity) ==
    LET px == player_rect[1]
        py == player_rect[2]
        pw == player_rect[3]
        ph == player_rect[4]
        plat_x == platform_rect[1]
        plat_y == platform_rect[2]
        plat_w == platform_rect[3]
        plat_h == platform_rect[4]
        vx == velocity[1]
        vy == velocity[2]
        overlap_left == (px + pw) - plat_x
        overlap_right == (plat_x + plat_w) - px
        overlap_top == (py + ph) - plat_y
        overlap_bottom == (plat_y + plat_h) - py
        min_overlap == Min4(overlap_left, overlap_right, overlap_top, overlap_bottom)
    IN  IF min_overlap = overlap_top
        THEN [pos |-> <<px, plat_y - ph>>, vel |-> <<vx, 0>>, side |-> ORIENTATION_FLOOR]
        ELSE IF min_overlap = overlap_bottom
        THEN [pos |-> <<px, plat_y + plat_h>>, vel |-> <<vx, 0>>, side |-> ORIENTATION_CEILING]
        ELSE IF min_overlap = overlap_left
        THEN [pos |-> <<plat_x - pw, py>>, vel |-> <<0, vy>>, side |-> ORIENTATION_WALL_RIGHT]
        ELSE [pos |-> <<plat_x + plat_w, py>>, vel |-> <<0, vy>>, side |-> ORIENTATION_WALL_LEFT]

\* resolve_collision(player_rect, platform_rect, velocity)
\* returns (new_position, new_velocity, collision_side); "" is no side
resolve_collision(player_rect, platform_rect, velocity) ==
    LET px == player_rect[1]
        py == player_rect[2]
        pw == player_rect[3]
        ph == player_rect[4]
        plat_x == platform_rect[1]
        plat_y == platform_rect[2]
        plat_w == platform_rect[3]
        plat_h == platform_rect[4]
        vx == velocity[1]
        vy == velocity[2]
        overlap_left == (px + pw) - plat_x
        overlap_right == (plat_x + plat_w) - px
        overlap_top == (py + ph) - plat_y
        overlap_bottom == (plat_y + plat_h) - py
        min_overlap == Min4(overlap_left, overlap_right, overlap_top, overlap_bottom)
    IN  IF min_overlap = overlap_top /\ vy >= 0
        THEN [pos |-> <<px, plat_y - ph>>, vel |-> <<vx, 0>>, side |-> ORIENTATION_FLOOR]
        ELSE IF min_overlap = overlap_bottom /\ vy <= 0
        THEN [pos |-> <<px, plat_y + plat_h>>, vel |-> <<vx, 0>>, side |-> ORIENTATION_CEILING]
        ELSE IF min_overlap = overlap_left /\ vx >= 0
        THEN [pos |-> <<plat_x - pw, py>>, vel |-> <<0, vy>>, side |-> ORIENTATION_WALL_RIGHT]
        ELSE IF min_overlap = overlap_right /\ vx <= 0
        THEN [pos |-> <<plat_x + plat_w, py>>, vel |-> <<0, vy>>, side |-> ORIENTATION_WALL_LEFT]
        ELSE [pos |-> <<px, py>>, vel |-> <<vx, vy>>, side |-> ""]

\* get_surface_normal(orientation)
get_surface_normal(orientation) ==
    IF orientation = ORIENTATION_FLOOR THEN <<0, -1>>
    ELSE IF orientation = ORIENTATION_CEILING THEN <<0, 1>>
    ELSE IF orientation = ORIENTATION_WALL_LEFT THEN <<1, 0>>
    ELSE IF orientation = ORIENTATION_WALL_RIGHT THEN <<-1, 0>>
    ELSE <<0, -1>>

-----------------------------------------------------------------------------
\* platforms.py

\* Platform.__init__
Platform(x, y, width, height, is_magnetic, orientation) ==
    [class |-> "Platform",
     x |-> x, y |-> y, width |-> width, height |-> height,
     is_magnetic |-> is_magnetic, orientation |-> orientation]

\* Platform.rect
Platform_rect(self) == <<self.x, self.y, self.width, self.height>>

\* Platform.is_player_on_surface(player_rect, tolerance)
is_player_on_surface(self, player_rect, tolerance) ==
    LET px == player_rect[1]
        py == player_rect[2]
        pw == player_rect[3]
        ph == player_rect[4]
    IN  IF self.orientation = ORIENTATION_FLOOR
        THEN /\ Abs((py + ph) - self.y) <= tolerance
             /\ px + pw > self.x
             /\ px < self.x + self.width
        ELSE IF self.orientation = ORIENTATION_CEILING
        THEN /\ Abs(py - (self.y + self.height)) <= tolerance
             /\ px + pw > self.x
             /\ px < self.x + self.width
        ELSE IF self.orientation = ORIENTATION_WALL_LEFT
        THEN /\ Abs((px + pw) - self.x) <= tolerance
             /\ py + ph > self.y
             /\ py < self.y + self.height
        ELSE IF self.orientation = ORIENTATION_WALL_RIGHT
        THEN /\ Abs(px - (self.x + self.width)) <= tolerance
             /\ py + ph > self.y
             /\ py < self.y + self.height
        ELSE FALSE

-----------------------------------------------------------------------------
\* player.py.  current_surface is a reference to a Platform object: here the
\* index of that object in Level.platforms, NoSurface for None.

NoSurface == 0

\* Player.__init__(x, y)
Player(x, y) ==
    [x |-> x, y |-> y,
     velocity_x |-> 0, velocity_y |-> 0,
     magnetic_state |-> MAGNETIC_STATE_NORMAL,
     current_surface |-> NoSurface,
     current_orientation |-> ORIENTATION_FLOOR,
     on_ground |-> FALSE,
     facing_right |-> TRUE,
     boots_active |-> TRUE,
     jump_count |-> 0]

\* Player.rect
Player_rect(self) == <<self.x, self.y, PLAYER_WIDTH, PLAYER_HEIGHT>>

\* Player.velocity
Player_velocity(self) == <<self.velocity_x, self.velocity_y>>

\* move() that sets velocity_x whatever surface the player sticks to
Player_move_ignores_surface(self, horizontal, vertical) ==
    LET s1 == IF horizontal # 0
              THEN [self EXCEPT !.facing_right = (horizontal > 0)]
              ELSE self
    IN  [s1 EXCEPT !.velocity_x = horizontal * PLAYER_SPEED]

\* Player.move(horizontal, vertical)
Player_move(self, horizontal, vertical) ==
    LET s1 == IF horizontal # 0
              THEN [self EXCEPT !.facing_right = (horizontal > 0)]
              ELSE self
    IN  IF s1.magnetic_state = MAGNETIC_STATE_STICKING
        THEN IF s1.current_orientation \in {ORIENTATION_FLOOR, ORIENTATION_CEILING}
             THEN [s1 EXCEPT !.velocity_x = horizontal * PLAYER_SPEED]
             ELSE IF s1.current_orientation \in {ORIENTATION_WALL_LEFT, ORIENTATION_WALL_RIGHT}
             THEN [s1 EXCEPT !.velocity_y = vertical * PLAYER_SPEED]
             ELSE s1
        ELSE [s1 EXCEPT !.velocity_x = horizontal * PLAYER_SPEED]

\* detach_from_surface() without its last line: on_ground is left as it was
Player_detach_keeps_ground(self) ==
    [self EXCEPT !.magnetic_state = MAGNETIC_STATE_NORMAL,
                 !.current_surface = NoSurface]

\* Player.detach_from_surface()
Player_detach_from_surface(self) ==
    [self EXCEPT !.magnetic_state = MAGNETIC_STATE_NORMAL,
                 !.current_surface = NoSurface,
                 !.on_ground = FALSE]

\* jump() that resets no jump_count when it leaves a surface
Player_jump_keeps_count(self) ==
    IF self.magnetic_state = MAGNETIC_STATE_STICKING
    THEN LET d == Player_detach_from_surface(self)
             normal == get_surface_normal(d.current_orientation)
         IN  [d EXCEPT !.velocity_x = d.velocity_x + normal[1] * PLAYER_JUMP_STRENGTH,
                       !.velocity_y = d.velocity_y + normal[2] * PLAYER_JUMP_STRENGTH]
    ELSE IF self.on_ground \/ self.jump_count < max_jumps
    THEN [self EXCEPT !.velocity_y = -PLAYER_JUMP_STRENGTH,
                      !.on_ground = FALSE,
                      !.jump_count = self.jump_count + 1]
    ELSE self

\* jump() that compares jump_count with <= in place of <
Player_jump_one_more(self) ==
    IF self.magnetic_state = MAGNETIC_STATE_STICKING
    THEN LET d == Player_detach_from_surface(self)
             normal == get_surface_normal(d.current_orientation)
         IN  [d EXCEPT !.velocity_x = d.velocity_x + normal[1] * PLAYER_JUMP_STRENGTH,
                       !.velocity_y = d.velocity_y + normal[2] * PLAYER_JUMP_STRENGTH,
                       !.jump_count = 1]
    ELSE IF self.on_ground \/ self.jump_count <= max_jumps
    THEN [self EXCEPT !.velocity_y = -PLAYER_JUMP_STRENGTH,
                      !.on_ground = FALSE,
                      !.jump_count = self.jump_count + 1]
    ELSE self

\* Player.jump(): the state it leaves
Player_jump(self) ==
    IF self.magnetic_state = MAGNETIC_STATE_STICKING
    THEN LET d == Player_detach_from_surface(self)
             normal == get_surface_normal(d.current_orientation)
         IN  [d EXCEPT !.velocity_x = d.velocity_x + normal[1] * PLAYER_JUMP_STRENGTH,
                       !.velocity_y = d.velocity_y + normal[2] * PLAYER_JUMP_STRENGTH,
                       !.jump_count = 1]
    ELSE IF self.on_ground \/ self.jump_count < max_jumps
    THEN [self EXCEPT !.velocity_y = -PLAYER_JUMP_STRENGTH,
                      !.on_ground = FALSE,
                      !.jump_count = self.jump_count + 1]
    ELSE self

\* Player.jump(): the value it returns
Player_jump_result(self) ==
    \/ self.magnetic_state = MAGNETIC_STATE_STICKING
    \/ self.on_ground
    \/ self.jump_count < max_jumps

\* toggle_magnetic_state() that only flips boots_active
Player_toggle_keeps_surface(self) ==
    [self EXCEPT !.boots_active = ~self.boots_active]

\* Player.toggle_magnetic_state()
Player_toggle_magnetic_state(self) ==
    LET s1 == [self EXCEPT !.boots_active = ~self.boots_active]
    IN  IF ~s1.boots_active /\ s1.magnetic_state = MAGNETIC_STATE_STICKING
        THEN Player_detach_from_surface(s1)
        ELSE s1

\* apply_gravity() without its test of magnetic_state
Player_gravity_unguarded(self) ==
    [self EXCEPT !.velocity_y = apply_gravity(self.velocity_y, self.magnetic_state)]

\* Player.apply_gravity()
Player_apply_gravity(self) ==
    IF self.magnetic_state # MAGNETIC_STATE_STICKING
    THEN [self EXCEPT !.velocity_y = apply_gravity(self.velocity_y, self.magnetic_state)]
    ELSE self

\* Player.apply_friction()
Player_apply_friction(self) ==
    [self EXCEPT !.velocity_x = apply_friction(self.velocity_x, self.on_ground)]

\* stick_to_surface() that keeps the velocity of the player
Player_stick_keeps_velocity(self, plats, idx, collision_side) ==
    IF ~self.boots_active \/ ~plats[idx].is_magnetic
    THEN self
    ELSE [self EXCEPT !.magnetic_state = MAGNETIC_STATE_STICKING,
                      !.current_surface = idx,
                      !.current_orientation = collision_side,
                      !.on_ground = TRUE,
                      !.jump_count = 0]

\* Player.stick_to_surface(platform, collision_side); platform is plats[idx]
Player_stick_to_surface(self, plats, idx, collision_side) ==
    IF ~self.boots_active \/ ~plats[idx].is_magnetic
    THEN self
    ELSE [self EXCEPT !.magnetic_state = MAGNETIC_STATE_STICKING,
                      !.current_surface = idx,
                      !.current_orientation = collision_side,
                      !.velocity_x = 0,
                      !.velocity_y = 0,
                      !.on_ground = TRUE,
                      !.jump_count = 0]

\* apply_magnetic_force() that assigns the force in place of adding it
Player_force_replaces_velocity(self, force) ==
    IF self.magnetic_state # MAGNETIC_STATE_STICKING
    THEN [self EXCEPT !.velocity_x = force[1], !.velocity_y = force[2]]
    ELSE self

\* apply_magnetic_force() that pulls a Sticking player off its surface
Player_force_detaches(self, force) ==
    LET d == IF self.magnetic_state = MAGNETIC_STATE_STICKING
             THEN Player_detach_from_surface(self)
             ELSE self
    IN  [d EXCEPT !.velocity_x = d.velocity_x + force[1],
                  !.velocity_y = d.velocity_y + force[2]]

\* Player.apply_magnetic_force(force)
Player_apply_magnetic_force(self, force) ==
    IF self.magnetic_state # MAGNETIC_STATE_STICKING
    THEN [self EXCEPT !.velocity_x = self.velocity_x + force[1],
                      !.velocity_y = self.velocity_y + force[2]]
    ELSE self

\* the first part of update() with on_ground reset in every state
Player_integrate_resets_ground(self) ==
    LET g == Player_apply_gravity(self)
        f == Player_apply_friction(g)
        m == [f EXCEPT !.x = f.x + f.velocity_x, !.y = f.y + f.velocity_y]
    IN  [m EXCEPT !.on_ground = FALSE]

\* Player.update, lines 201-215: gravity, friction, velocity, ground-state reset
Player_update_integrate(self) ==
    LET g == Player_apply_gravity(self)
        f == Player_apply_friction(g)
        m == [f EXCEPT !.x = f.x + f.velocity_x, !.y = f.y + f.velocity_y]
    IN  IF m.magnetic_state # MAGNETIC_STATE_STICKING
        THEN [m EXCEPT !.on_ground = FALSE]
        ELSE m

\* the loop body of update() that takes the new velocity of a resolved
\* collision and leaves the player where the collision found it
Player_collide_keeps_position(self, plats, idx) ==
    IF check_rect_collision(Player_rect(self), Platform_rect(plats[idx]))
    THEN LET r == resolve_collision(Player_rect(self), Platform_rect(plats[idx]),
                                    Player_velocity(self))
             s1 == [self EXCEPT !.velocity_x = r.vel[1], !.velocity_y = r.vel[2]]
         IN  IF r.side # "" /\ plats[idx].is_magnetic /\ s1.boots_active
             THEN Player_stick_to_surface(s1, plats, idx, r.side)
             ELSE IF r.side = ORIENTATION_FLOOR
             THEN [s1 EXCEPT !.on_ground = TRUE, !.jump_count = 0]
             ELSE s1
    ELSE self

\* the loop body of update() that grounds the player on any resolved side
Player_collide_grounds_on_any_side(self, plats, idx) ==
    IF check_rect_collision(Player_rect(self), Platform_rect(plats[idx]))
    THEN LET r == resolve_collision(Player_rect(self), Platform_rect(plats[idx]),
                                    Player_velocity(self))
             s1 == [self EXCEPT !.x = r.pos[1], !.y = r.pos[2],
                                !.velocity_x = r.vel[1], !.velocity_y = r.vel[2]]
         IN  IF r.side # "" /\ plats[idx].is_magnetic /\ s1.boots_active
             THEN Player_stick_to_surface(s1, plats, idx, r.side)
             ELSE IF r.side # ""
             THEN [s1 EXCEPT !.on_ground = TRUE, !.jump_count = 0]
             ELSE s1
    ELSE self

\* the loop body of update() with a floor that resets no jump_count
Player_collide_keeps_count(self, plats, idx) ==
    IF check_rect_collision(Player_rect(self), Platform_rect(plats[idx]))
    THEN LET r == resolve_collision(Player_rect(self), Platform_rect(plats[idx]),
                                    Player_velocity(self))
             s1 == [self EXCEPT !.x = r.pos[1], !.y = r.pos[2],
                                !.velocity_x = r.vel[1], !.velocity_y = r.vel[2]]
         IN  IF r.side # "" /\ plats[idx].is_magnetic /\ s1.boots_active
             THEN Player_stick_to_surface(s1, plats, idx, r.side)
             ELSE IF r.side = ORIENTATION_FLOOR
             THEN [s1 EXCEPT !.on_ground = TRUE]
             ELSE s1
    ELSE self

\* Player.update, lines 219-233: the body of the loop for one platform plats[idx]
Player_update_collide(self, plats, idx) ==
    IF check_rect_collision(Player_rect(self), Platform_rect(plats[idx]))
    THEN LET r == resolve_collision(Player_rect(self), Platform_rect(plats[idx]),
                                    Player_velocity(self))
             s1 == [self EXCEPT !.x = r.pos[1], !.y = r.pos[2],
                                !.velocity_x = r.vel[1], !.velocity_y = r.vel[2]]
         IN  IF r.side # "" /\ plats[idx].is_magnetic /\ s1.boots_active
             THEN Player_stick_to_surface(s1, plats, idx, r.side)
             ELSE IF r.side = ORIENTATION_FLOOR
             THEN [s1 EXCEPT !.on_ground = TRUE, !.jump_count = 0]
             ELSE s1
    ELSE self

\* Player.update, lines 218-233: the loop over the first k platforms of the
\* argument list; arg is the list of the indices in plats of the platforms passed
RECURSIVE Player_update_loop(_, _, _, _)
Player_update_loop(self, plats, arg, k) ==
    IF k = 0
    THEN self
    ELSE Player_update_collide(Player_update_loop(self, plats, arg, k - 1), plats, arg[k])

\* Player.update, lines 235-238: the contact check against the recorded surface
Player_update_contact(self, plats) ==
    IF self.magnetic_state = MAGNETIC_STATE_STICKING /\ self.current_surface # NoSurface
    THEN IF ~is_player_on_surface(plats[self.current_surface], Player_rect(self), StickTolerance)
         THEN Player_detach_from_surface(self)
         ELSE self
    ELSE self

\* Player.update(platforms)
Player_update(self, plats, arg) ==
    Player_update_contact(
        Player_update_loop(Player_update_integrate(self), plats, arg, Len(arg)), plats)

\* Player.reset(x, y)
Player_reset(self, x, y) ==
    [self EXCEPT !.x = x, !.y = y,
                 !.velocity_x = 0, !.velocity_y = 0,
                 !.magnetic_state = MAGNETIC_STATE_NORMAL,
                 !.current_surface = NoSurface,
                 !.current_orientation = ORIENTATION_FLOOR,
                 !.on_ground = FALSE,
                 !.boots_active = TRUE,
                 !.jump_count = 0]

-----------------------------------------------------------------------------
\* physics.py, magnets.py: the force of a magnet on a body.  A distance is
\* kept in units of 1/SubPixel pixel (math.sqrt rounded down to that unit); a
\* force is a velocity change per tick and is rounded to the velocity grid.

POLARITY_ATTRACT == "attract"
POLARITY_REPEL == "repel"

SubPixel == 2

\* math.sqrt(n) rounded down, found by bisection of lo..hi
RECURSIVE sqrt(_, _, _)
sqrt(n, lo, hi) ==
    IF lo >= hi
    THEN lo
    ELSE LET mid == (lo + hi + 1) \div 2
         IN  IF mid * mid <= n THEN sqrt(n, mid, hi) ELSE sqrt(n, lo, mid - 1)

\* calculate_distance(pos1, pos2), in units of 1/SubPixel pixel
calculate_distance(pos1, pos2) ==
    LET dx == pos2[1] - pos1[1]
        dy == pos2[2] - pos1[2]
        sq == SubPixel * SubPixel * (dx * dx + dy * dy)
    IN  sqrt(sq, 0, SubPixel * (Abs(dx) + Abs(dy)))

\* a magnitude that does not fall with the distance
force_magnitude_flat(distance, magnet_range, magnet_strength) ==
    << magnet_strength, 1 >>

\* force_magnitude = magnet_strength * (1 - distance / magnet_range) ** 2 of
\* calculate_magnetic_force, as the fraction << numerator, denominator >>; the
\* distance is in units of 1/SubPixel pixel
force_magnitude(distance, magnet_range, magnet_strength) ==
    LET reach == SubPixel * magnet_range
    IN  << magnet_strength * (reach - distance) * (reach - distance),
           reach * reach >>

\* calculate_magnetic_force(object_pos, magnet_pos, magnet_range, magnet_strength, polarity)
calculate_magnetic_force(object_pos, magnet_pos, magnet_range, magnet_strength, polarity) ==
    LET distance == calculate_distance(object_pos, magnet_pos)
        dx == magnet_pos[1] - object_pos[1]
        dy == magnet_pos[2] - object_pos[2]
        reach == SubPixel * magnet_range
        sign == IF polarity = POLARITY_REPEL THEN -1 ELSE 1
        magnitude == force_magnitude(distance, magnet_range, magnet_strength)
        num == magnitude[1]
        den == distance * magnitude[2]
    IN  IF distance > reach \/ distance = 0
        THEN <<0, 0>>
        ELSE << RoundRatio(sign * dx * SubPixel * num, den),
                RoundRatio(sign * dy * SubPixel * num, den) >>

\* Magnet.__init__(x, y, polarity, range_, strength)
Magnet(x, y, polarity, range_, strength) ==
    [x |-> x, y |-> y, polarity |-> polarity, range |-> range_,
     strength |-> strength, width |-> 32, height |-> 32, active |-> TRUE]

\* Magnet.position
Magnet_position(self) == <<self.x, self.y>>

\* Magnet.toggle()
Magnet_toggle(self) == [self EXCEPT !.active = ~self.active]

\* set_polarity() that leaves the polarity as it is
Magnet_set_polarity_ignored(self, polarity) == self

\* Magnet.set_polarity(polarity)
Magnet_set_polarity(self, polarity) ==
    IF polarity \in {POLARITY_ATTRACT, POLARITY_REPEL}
    THEN [self EXCEPT !.polarity = polarity]
    ELSE self

\* get_force_on_object() without its test of active
Magnet_force_ignores_active(self, object_pos) ==
    calculate_magnetic_force(object_pos, Magnet_position(self),
                             self.range, self.strength, self.polarity)

\* Magnet.get_force_on_object(object_pos)
Magnet_get_force_on_object(self, object_pos) ==
    IF ~self.active
    THEN <<0, 0>>
    ELSE calculate_magnetic_force(object_pos, Magnet_position(self),
                                  self.range, self.strength, self.polarity)

\* Magnet.to_dict()
Magnet_to_dict(self) ==
    [x |-> self.x, y |-> self.y, polarity |-> self.polarity,
     range |-> self.range, strength |-> self.strength,
     width |-> self.width, height |-> self.height, active |-> self.active]

\* from_dict() that leaves the magnet switched on, as __init__ made it
Magnet_from_dict_switched_on(data) ==
    [Magnet(data.x, data.y, dict_get(data, "polarity", POLARITY_ATTRACT),
            data.range, data.strength)
       EXCEPT !.width = dict_get(data, "width", 32),
              !.height = dict_get(data, "height", 32)]

\* Magnet.from_dict(data): cls(x, y, polarity, range_, strength, width, height)
\* and then the assignment of active.  The defaults of 'range' and 'strength'
\* are constants of constants.py; the dicts handed in here have both keys.
Magnet_from_dict(data) ==
    [Magnet(data.x, data.y, dict_get(data, "polarity", POLARITY_ATTRACT),
            data.range, data.strength)
       EXCEPT !.width = dict_get(data, "width", 32),
              !.height = dict_get(data, "height", 32),
              !.active = dict_get(data, "active", TRUE)]

\* Player.position: the centre of the player
Player_position(self) == <<self.x + PLAYER_WIDTH \div 2, self.y + PLAYER_HEIGHT \div 2>>

-----------------------------------------------------------------------------
\* platforms.py: MovingPlatform.  progress is kept in percent, and speed is the
\* percentage of the path covered per tick (speed * 0.01 of the path).

\* MovingPlatform.__init__(x, y, width, height, end_x, end_y, speed, is_magnetic, orientation)
MovingPlatform(x, y, width, height, end_x, end_y, speed, is_magnetic, orientation) ==
    [class |-> "MovingPlatform",
     x |-> x, y |-> y, width |-> width, height |-> height,
     is_magnetic |-> is_magnetic, orientation |-> orientation,
     start_x |-> x, start_y |-> y, end_x |-> end_x, end_y |-> end_y,
     speed |-> speed, direction |-> 1, progress |-> 0]

\* update() that turns around without setting progress back onto the path
MovingPlatform_update_unclamped(self) ==
    LET moved == self.progress + self.speed * self.direction
        s1 == IF moved >= 100
              THEN [self EXCEPT !.progress = moved, !.direction = -1]
              ELSE IF moved <= 0
              THEN [self EXCEPT !.progress = moved, !.direction = 1]
              ELSE [self EXCEPT !.progress = moved]
    IN  [s1 EXCEPT !.x = s1.start_x + ((s1.end_x - s1.start_x) * s1.progress) \div 100,
                   !.y = s1.start_y + ((s1.end_y - s1.start_y) * s1.progress) \div 100]

\* update() that stops at the end waypoint without turning around
MovingPlatform_update_no_turn(self) ==
    LET moved == self.progress + self.speed * self.direction
        s1 == IF moved >= 100
              THEN [self EXCEPT !.progress = 100]
              ELSE IF moved <= 0
              THEN [self EXCEPT !.progress = 0, !.direction = 1]
              ELSE [self EXCEPT !.progress = moved]
    IN  [s1 EXCEPT !.x = s1.start_x + ((s1.end_x - s1.start_x) * s1.progress) \div 100,
                   !.y = s1.start_y + ((s1.end_y - s1.start_y) * s1.progress) \div 100]

\* MovingPlatform.update()
MovingPlatform_update(self) ==
    LET moved == self.progress + self.speed * self.direction
        s1 == IF moved >= 100
              THEN [self EXCEPT !.progress = 100, !.direction = -1]
              ELSE IF moved <= 0
              THEN [self EXCEPT !.progress = 0, !.direction = 1]
              ELSE [self EXCEPT !.progress = moved]
    IN  [s1 EXCEPT !.x = s1.start_x + ((s1.end_x - s1.start_x) * s1.progress) \div 100,
                   !.y = s1.start_y + ((s1.end_y - s1.start_y) * s1.progress) \div 100]

\* Platform.to_dict()
Platform_to_dict(self) ==
    [x |-> self.x, y |-> self.y, width |-> self.width, height |-> self.height,
     is_magnetic |-> self.is_magnetic, orientation |-> self.orientation]

\* Platform.from_dict(data)
Platform_from_dict(data) ==
    Platform(data.x, data.y, data.width, data.height,
             dict_get(data, "is_magnetic", FALSE),
             dict_get(data, "orientation", ORIENTATION_FLOOR))

\* MovingPlatform.to_dict(): the dict of Platform.to_dict() updated with the
\* end waypoint, the speed and the mark 'moving'
MovingPlatform_to_dict(self) ==
    [end_x |-> self.end_x, end_y |-> self.end_y, speed |-> self.speed,
     moving |-> TRUE] @@ Platform_to_dict(self)

\* MovingPlatform.from_dict(data); the default speed 2.0 is 2 percent per tick
MovingPlatform_from_dict(data) ==
    MovingPlatform(data.x, data.y, data.width, data.height,
                   data.end_x, data.end_y, dict_get(data, "speed", 2),
                   dict_get(data, "is_magnetic", FALSE),
                   dict_get(data, "orientation", ORIENTATION_FLOOR))

-----------------------------------------------------------------------------
\* enemies.py

\* Enemy.__init__(x, y, width, height, speed, is_magnetic)
Enemy(x, y, width, height, speed, is_magnetic) ==
    [class |-> "Enemy",
     x |-> x, y |-> y, width |-> width, height |-> height,
     velocity_x |-> speed, velocity_y |-> 0, speed |-> speed,
     is_magnetic |-> is_magnetic, alive |-> TRUE, direction |-> 1]

\* PatrolEnemy.__init__(x, y, patrol_distance, **kwargs)
PatrolEnemy(x, y, patrol_distance, width, height, speed, is_magnetic) ==
    [class |-> "PatrolEnemy",
     x |-> x, y |-> y, width |-> width, height |-> height,
     velocity_x |-> speed, velocity_y |-> 0, speed |-> speed,
     is_magnetic |-> is_magnetic, alive |-> TRUE, direction |-> 1,
     start_x |-> x, patrol_distance |-> patrol_distance]

\* Enemy.position: the centre of the enemy
Enemy_position(self) == <<self.x + self.width \div 2, self.y + self.height \div 2>>

\* Enemy.rect
Enemy_rect(self) == <<self.x, self.y, self.width, self.height>>

\* Enemy.apply_magnetic_force(force)
Enemy_apply_magnetic_force(self, force) ==
    IF self.is_magnetic
    THEN [self EXCEPT !.velocity_x = self.velocity_x + force[1],
                      !.velocity_y = self.velocity_y + force[2]]
    ELSE self

\* Enemy.update, lines 104-109: the loop over the first k platforms
RECURSIVE Enemy_update_loop(_, _, _)
Enemy_update_loop(self, plats, k) ==
    IF k = 0
    THEN self
    ELSE LET e == Enemy_update_loop(self, plats, k - 1)
         IN  IF /\ check_rect_collision(Enemy_rect(e), Platform_rect(plats[k]))
                /\ e.velocity_y > 0
             THEN [e EXCEPT !.y = plats[k].y - e.height, !.velocity_y = 0]
             ELSE e

\* Enemy.update(platforms)
Enemy_update(self, plats) ==
    IF ~self.alive
    THEN self
    ELSE LET g == [self EXCEPT !.velocity_y = Min2(self.velocity_y + GRAVITY, MAX_FALL_SPEED)]
             m == [g EXCEPT !.x = g.x + g.velocity_x, !.y = g.y + g.velocity_y]
         IN  Enemy_update_loop(m, plats, Len(plats))

\* PatrolEnemy.update() without the patrol logic
PatrolEnemy_update_never_turns(self, plats) == Enemy_update(self, plats)

\* PatrolEnemy.update(platforms)
PatrolEnemy_update(self, plats) ==
    IF ~self.alive
    THEN self
    ELSE LET turned ==
                 IF self.x >= self.start_x + self.patrol_distance
                 THEN [self EXCEPT !.direction = -1, !.velocity_x = -self.speed]
                 ELSE IF self.x <= self.start_x
                 THEN [self EXCEPT !.direction = 1, !.velocity_x = self.speed]
                 ELSE self
         IN  Enemy_update(turned, plats)

\* FlyingEnemy.__init__(x, y, amplitude, frequency, **kwargs).  The frequency
\* is kept in quarter turns per frame, which makes math.sin exact.
FlyingEnemy(x, y, amplitude, frequency, width, height, speed, is_magnetic) ==
    [class |-> "FlyingEnemy",
     x |-> x, y |-> y, width |-> width, height |-> height,
     velocity_x |-> speed, velocity_y |-> 0, speed |-> speed,
     is_magnetic |-> is_magnetic, alive |-> TRUE, direction |-> 1,
     start_y |-> y, amplitude |-> amplitude, frequency |-> frequency, time |-> 0]

\* math.sin of a whole number of quarter turns
sin(quarters) == << 0, 1, 0, -1 >>[(quarters % 4) + 1]

\* FlyingEnemy.update(platforms)
FlyingEnemy_update(self, plats) ==
    IF ~self.alive
    THEN self
    ELSE LET t == self.time + 1
         IN  [self EXCEPT !.time = t,
                          !.y = self.start_y + self.amplitude * sin(t * self.frequency),
                          !.x = self.x + self.velocity_x]

\* enemy.update(platforms), dispatched on the class of the enemy
update_enemy(self, plats) ==
    IF self.class = "PatrolEnemy"
    THEN PatrolEnemy_update(self, plats)
    ELSE IF self.class = "FlyingEnemy"
    THEN FlyingEnemy_update(self, plats)
    ELSE Enemy_update(self, plats)

\* Enemy.kill()
Enemy_kill(self) == [self EXCEPT !.alive = FALSE]

\* Enemy.to_dict()
Enemy_to_dict(self) ==
    [type |-> "basic", x |-> self.x, y |-> self.y,
     width |-> self.width, height |-> self.height,
     speed |-> self.speed, is_magnetic |-> self.is_magnetic]

\* Enemy.from_dict(data)
Enemy_from_dict(data) ==
    Enemy(data.x, data.y, dict_get(data, "width", 32), dict_get(data, "height", 32),
          dict_get(data, "speed", 2), dict_get(data, "is_magnetic", TRUE))

\* PatrolEnemy.to_dict()
PatrolEnemy_to_dict(self) ==
    [patrol_distance |-> self.patrol_distance]
    @@ [Enemy_to_dict(self) EXCEPT !.type = "patrol"]

\* FlyingEnemy.to_dict()
FlyingEnemy_to_dict(self) ==
    [amplitude |-> self.amplitude, frequency |-> self.frequency]
    @@ [Enemy_to_dict(self) EXCEPT !.type = "flying"]

\* e.to_dict(), dispatched on the class of the enemy
enemy_to_dict(self) ==
    IF self.class = "PatrolEnemy"
    THEN PatrolEnemy_to_dict(self)
    ELSE IF self.class = "FlyingEnemy"
    THEN FlyingEnemy_to_dict(self)
    ELSE Enemy_to_dict(self)

\* create_enemy_from_dict(data); the default frequency 0.05 is no whole number
\* of quarter turns, and the dicts handed in here have the key
create_enemy_from_dict(data) ==
    LET enemy_type == dict_get(data, "type", "basic")
    IN  IF enemy_type = "patrol"
        THEN PatrolEnemy(data.x, data.y, dict_get(data, "patrol_distance", 100),
                         dict_get(data, "width", 32), dict_get(data, "height", 32),
                         dict_get(data, "speed", 2),
                         dict_get(data, "is_magnetic", TRUE))
        ELSE IF enemy_type = "flying"
        THEN FlyingEnemy(data.x, data.y, dict_get(data, "amplitude", 50),
                         data.frequency,
                         dict_get(data, "width", 32), dict_get(data, "height", 32),
                         dict_get(data, "speed", 2),
                         dict_get(data, "is_magnetic", TRUE))
        ELSE Enemy_from_dict(data)

\* check_player_collision() of an enemy that collides dead or alive
Enemy_collides_when_dead(self, player_rect) ==
    check_rect_collision(Enemy_rect(self), player_rect)

\* Enemy.check_player_collision(player_rect)
Enemy_check_player_collision(self, player_rect) ==
    self.alive /\ check_rect_collision(Enemy_rect(self), player_rect)

-----------------------------------------------------------------------------
\* level.py

\* Level.goal_rect
Level_goal_rect(self) ==
    <<self.goal_position[1], self.goal_position[2], self.goal_size[1], self.goal_size[2]>>

\* Level.add_magnet(magnet)
Level_add_magnet(self, magnet) == [self EXCEPT !.magnets = Append(@, magnet)]

\* the force of the first magnet of the list alone
Level_force_of_first_magnet(self, position) ==
    IF Len(self.magnets) = 0
    THEN <<0, 0>>
    ELSE Magnet_get_force_on_object(self.magnets[1], position)

\* Level.get_total_magnetic_force(position): the sum over the first k magnets
RECURSIVE Level_force_sum(_, _, _)
Level_force_sum(self, position, k) ==
    IF k = 0
    THEN <<0, 0>>
    ELSE LET total == Level_force_sum(self, position, k - 1)
             force == Magnet_get_force_on_object(self.magnets[k], position)
         IN  <<total[1] + force[1], total[2] + force[2]>>

\* Level.get_total_magnetic_force(position)
Level_get_total_magnetic_force(self, position) ==
    Level_force_sum(self, position, Len(self.magnets))

\* Level.update, lines 83-85: every MovingPlatform of the list moves
Level_update_platforms(self) ==
    [self EXCEPT !.platforms =
        [i \in 1..Len(self.platforms) |->
            IF self.platforms[i].class = "MovingPlatform"
            THEN MovingPlatform_update(self.platforms[i])
            ELSE self.platforms[i]]]

\* Level.update, lines 88-93: the body of the loop for one enemy
Level_update_enemy(self, enemy) ==
    LET forced == IF enemy.is_magnetic
                  THEN Enemy_apply_magnetic_force(
                           enemy, Level_get_total_magnetic_force(self, Enemy_position(enemy)))
                  ELSE enemy
    IN  update_enemy(forced, self.platforms)

\* Level.update, lines 88-93: enemies do not act on one another, so the loop
\* is the map of its body over the list
Level_update_enemies(self) ==
    [self EXCEPT !.enemies =
        [i \in 1..Len(self.enemies) |-> Level_update_enemy(self, self.enemies[i])]]

\* Level.update()
Level_update(self) == Level_update_enemies(Level_update_platforms(self))

-----------------------------------------------------------------------------
\* input_handler.py.  A key is the name of its pygame constant; an event is a
\* record with the type of the pygame event and, for a key event, its key.

NoKey == "None"

\* InputHandler.DEFAULT_BINDINGS
DEFAULT_BINDINGS ==
    [move_left |-> "K_LEFT", move_left_alt |-> "K_a",
     move_right |-> "K_RIGHT", move_right_alt |-> "K_d",
     move_up |-> "K_UP", move_up_alt |-> "K_w",
     move_down |-> "K_DOWN", move_down_alt |-> "K_s",
     jump |-> "K_SPACE", toggle_magnetic |-> "K_m", sprint |-> "K_LSHIFT",
     pause |-> "K_ESCAPE", restart |-> "K_r"]

\* self.bindings.get(action) and self.bindings.get(f"{action}_alt")
Binding(action) ==
    IF action \in DOMAIN DEFAULT_BINDINGS THEN DEFAULT_BINDINGS[action] ELSE NoKey

AltBinding(action) ==
    IF action = "move_left" THEN DEFAULT_BINDINGS.move_left_alt
    ELSE IF action = "move_right" THEN DEFAULT_BINDINGS.move_right_alt
    ELSE IF action = "move_up" THEN DEFAULT_BINDINGS.move_up_alt
    ELSE IF action = "move_down" THEN DEFAULT_BINDINGS.move_down_alt
    ELSE NoKey

\* InputHandler.__init__()
InputHandler ==
    [keys_pressed |-> {}, keys_just_pressed |-> {}, keys_just_released |-> {}]

KeyDown(key) == [type |-> "KEYDOWN", key |-> key]
KeyUp(key) == [type |-> "KEYUP", key |-> key]
Quit == [type |-> "QUIT"]

\* InputHandler.update, lines 52-58: the loop over the first k events
RECURSIVE InputHandler_update_loop(_, _, _)
InputHandler_update_loop(self, events, k) ==
    IF k = 0
    THEN self
    ELSE LET h == InputHandler_update_loop(self, events, k - 1)
             event == events[k]
         IN  IF event.type = "KEYDOWN"
             THEN [h EXCEPT !.keys_pressed = h.keys_pressed \cup {event.key},
                            !.keys_just_pressed = h.keys_just_pressed \cup {event.key}]
             ELSE IF event.type = "KEYUP"
             THEN [h EXCEPT !.keys_pressed = h.keys_pressed \ {event.key},
                            !.keys_just_released = h.keys_just_released \cup {event.key}]
             ELSE h

\* update() that keeps the keys of the frame before in keys_just_pressed
InputHandler_update_accumulates(self, events) ==
    InputHandler_update_loop([self EXCEPT !.keys_just_released = {}], events, Len(events))

\* InputHandler.update(events)
InputHandler_update(self, events) ==
    InputHandler_update_loop(
        [self EXCEPT !.keys_just_pressed = {}, !.keys_just_released = {}],
        events, Len(events))

\* InputHandler.is_action_pressed(action)
is_action_pressed(self, action) ==
    \/ Binding(action) # NoKey /\ Binding(action) \in self.keys_pressed
    \/ AltBinding(action) # NoKey /\ AltBinding(action) \in self.keys_pressed

\* InputHandler.is_action_just_pressed(action)
is_action_just_pressed(self, action) ==
    \/ Binding(action) # NoKey /\ Binding(action) \in self.keys_just_pressed
    \/ AltBinding(action) # NoKey /\ AltBinding(action) \in self.keys_just_pressed

\* InputHandler.is_action_just_released(action)
is_action_just_released(self, action) ==
    \/ Binding(action) # NoKey /\ Binding(action) \in self.keys_just_released
    \/ AltBinding(action) # NoKey /\ AltBinding(action) \in self.keys_just_released

\* InputHandler.get_movement_vector()
get_movement_vector(self) ==
    << (IF is_action_pressed(self, "move_right") THEN 1 ELSE 0)
         - (IF is_action_pressed(self, "move_left") THEN 1 ELSE 0),
       (IF is_action_pressed(self, "move_down") THEN 1 ELSE 0)
         - (IF is_action_pressed(self, "move_up") THEN 1 ELSE 0) >>

-----------------------------------------------------------------------------
\* game.py.  The handlers of Game work on w, the record of what they may
\* change: w.game (the attributes of the Game object), w.player (Game.player)
\* and w.levels (Game.levels); the input handler is read only.  The current
\* level is held by its index in Game.levels, NoLevel for None, and a player
\* that is None is the record None.  The camera stays at (0, 0) in a level
\* that fits on the screen and is left out with the rest of the rendering.

NoLevel == -1

None == [class |-> "None"]

menu_options == <<"Start Game", "Tutorial", "Quit">>

\* Game.__init__(), the attributes the handlers work on
Game ==
    [running |-> TRUE, state |-> "MENU", current_level |-> NoLevel,
     current_level_index |-> 0, menu_selection |-> 0]

\* self.current_level, when it is not None
current_level_of(w) == w.levels[w.game.current_level + 1]

\* the platform list handed to player.update: all of Level.platforms, in order
AllOf(plats) == [i \in 1..Len(plats) |-> i]

\* _start_level() without the test of the index against the list
Game_start_level_unchecked(w, level_index) ==
    LET index == IF level_index < 0 \/ level_index >= Len(w.levels)
                 THEN level_index % Len(w.levels)
                 ELSE level_index
    IN  [w EXCEPT !.game.current_level_index = level_index,
                  !.game.current_level = index,
                  !.player = Player(w.levels[index + 1].player_start[1],
                                    w.levels[index + 1].player_start[2]),
                  !.game.state = "PLAYING"]

\* Game._start_level(level_index)
Game_start_level(w, level_index) ==
    IF 0 <= level_index /\ level_index < Len(w.levels)
    THEN [w EXCEPT !.game.current_level_index = level_index,
                   !.game.current_level = level_index,
                   !.player = Player(w.levels[level_index + 1].player_start[1],
                                     w.levels[level_index + 1].player_start[2]),
                   !.game.state = "PLAYING"]
    ELSE w

\* _restart_level() that leaves the enemies as they are
Game_restart_level_keeps_dead(w) ==
    IF w.game.current_level # NoLevel /\ w.player # None
    THEN LET level == current_level_of(w)
         IN  [w EXCEPT !.player = Player_reset(w.player, level.player_start[1],
                                               level.player_start[2]),
                       !.game.state = "PLAYING"]
    ELSE w

\* Game._restart_level()
Game_restart_level(w) ==
    IF w.game.current_level # NoLevel /\ w.player # None
    THEN LET level == current_level_of(w)
         IN  [w EXCEPT !.player = Player_reset(w.player, level.player_start[1],
                                               level.player_start[2]),
                       !.game.state = "PLAYING",
                       !.levels[w.game.current_level + 1].enemies =
                           [i \in 1..Len(level.enemies) |->
                               [level.enemies[i] EXCEPT !.alive = TRUE]]]
    ELSE w

\* _next_level() that starts over with the first level after the last one
Game_next_level_wraps(w) ==
    Game_start_level(w, (w.game.current_level_index + 1) % Len(w.levels))

\* Game._next_level()
Game_next_level(w) ==
    LET next_index == w.game.current_level_index + 1
    IN  IF next_index < Len(w.levels)
        THEN Game_start_level(w, next_index)
        ELSE [w EXCEPT !.game.state = "MENU"]

\* update_menu() that moves the selection without wrapping it
Game_update_menu_unwrapped(w, inp) ==
    IF is_action_just_pressed(inp, "move_up")
    THEN [w EXCEPT !.game.menu_selection = w.game.menu_selection - 1]
    ELSE IF is_action_just_pressed(inp, "move_down")
    THEN [w EXCEPT !.game.menu_selection = w.game.menu_selection + 1]
    ELSE IF is_action_just_pressed(inp, "jump")
    THEN IF w.game.menu_selection = 0 THEN Game_start_level(w, 1)
         ELSE IF w.game.menu_selection = 1 THEN Game_start_level(w, 0)
         ELSE IF w.game.menu_selection = 2 THEN [w EXCEPT !.game.running = FALSE]
         ELSE w
    ELSE w

\* Game.update_menu()
Game_update_menu(w, inp) ==
    IF is_action_just_pressed(inp, "move_up")
    THEN [w EXCEPT !.game.menu_selection = (w.game.menu_selection - 1) % Len(menu_options)]
    ELSE IF is_action_just_pressed(inp, "move_down")
    THEN [w EXCEPT !.game.menu_selection = (w.game.menu_selection + 1) % Len(menu_options)]
    ELSE IF is_action_just_pressed(inp, "jump")
    THEN IF w.game.menu_selection = 0 THEN Game_start_level(w, 1)
         ELSE IF w.game.menu_selection = 1 THEN Game_start_level(w, 0)
         ELSE IF w.game.menu_selection = 2 THEN [w EXCEPT !.game.running = FALSE]
         ELSE w
    ELSE w

\* Game.update_playing, lines 161-169: the player's input
Game_playing_input(self, inp) ==
    LET movement == get_movement_vector(inp)
        moved == Player_move(self, movement[1], movement[2])
        jumped == IF is_action_just_pressed(inp, "jump") THEN Player_jump(moved) ELSE moved
    IN  IF is_action_just_pressed(inp, "toggle_magnetic")
        THEN Player_toggle_magnetic_state(jumped)
        ELSE jumped

\* Game.update_playing, lines 171-173: the force of the level's magnets on the player
Game_playing_force(self, level) ==
    Player_apply_magnetic_force(
        self, Level_get_total_magnetic_force(level, Player_position(self)))

\* the physics of update_playing with current_level.update() moved to the front
Game_playing_level_first(w, inp) ==
    LET level == Level_update(current_level_of(w))
        forced == Game_playing_force(Game_playing_input(w.player, inp), level)
    IN  [w EXCEPT !.player = Player_update(forced, level.platforms, AllOf(level.platforms)),
                  !.levels[w.game.current_level + 1] = level]

\* Game.update_playing, lines 161-179: input, force, player.update(platforms),
\* then current_level.update()
Game_playing_physics(w, inp) ==
    LET level == current_level_of(w)
        forced == Game_playing_force(Game_playing_input(w.player, inp), level)
    IN  [w EXCEPT !.player = Player_update(forced, level.platforms, AllOf(level.platforms)),
                  !.levels[w.game.current_level + 1] = Level_update(level)]

\* the checks of update_playing() without the one for a fall out of the level
Game_playing_checks_no_fall(w) ==
    LET level == current_level_of(w)
    IN  IF \E i \in 1..Len(level.enemies) :
               Enemy_check_player_collision(level.enemies[i], Player_rect(w.player))
        THEN [w EXCEPT !.game.state = "GAME_OVER"]
        ELSE IF check_rect_collision(Player_rect(w.player), Level_goal_rect(level))
        THEN [w EXCEPT !.game.state = "LEVEL_COMPLETE"]
        ELSE w

\* Game.update_playing, lines 181-196: enemy, goal and fall-off checks
Game_playing_checks(w) ==
    LET level == current_level_of(w)
    IN  IF \E i \in 1..Len(level.enemies) :
               Enemy_check_player_collision(level.enemies[i], Player_rect(w.player))
        THEN [w EXCEPT !.game.state = "GAME_OVER"]
        ELSE IF check_rect_collision(Player_rect(w.player), Level_goal_rect(level))
        THEN [w EXCEPT !.game.state = "LEVEL_COMPLETE"]
        ELSE IF w.player.y > level.height + 100
        THEN [w EXCEPT !.game.state = "GAME_OVER"]
        ELSE w

\* update_playing() that pauses only after the physics of the tick
Game_update_playing_pauses_late(w, inp) ==
    IF w.player = None \/ w.game.current_level = NoLevel
    THEN w
    ELSE IF is_action_just_pressed(inp, "pause")
    THEN [Game_playing_physics(w, inp) EXCEPT !.game.state = "PAUSED"]
    ELSE IF is_action_just_pressed(inp, "restart")
    THEN Game_restart_level(w)
    ELSE Game_playing_checks(Game_playing_physics(w, inp))

\* update_playing() that makes its checks on the player as the tick found it
Game_update_playing_checks_first(w, inp) ==
    IF w.player = None \/ w.game.current_level = NoLevel
    THEN w
    ELSE IF is_action_just_pressed(inp, "pause")
    THEN [w EXCEPT !.game.state = "PAUSED"]
    ELSE IF is_action_just_pressed(inp, "restart")
    THEN Game_restart_level(w)
    ELSE [Game_playing_physics(w, inp) EXCEPT
            !.game.state = Game_playing_checks(w).game.state]

\* Game.update_playing()
Game_update_playing(w, inp) ==
    IF w.player = None \/ w.game.current_level = NoLevel
    THEN w
    ELSE IF is_action_just_pressed(inp, "pause")
    THEN [w EXCEPT !.game.state = "PAUSED"]
    ELSE IF is_action_just_pressed(inp, "restart")
    THEN Game_restart_level(w)
    ELSE Game_playing_checks(Game_playing_physics(w, inp))

\* Game.update_paused()
Game_update_paused(w, inp) ==
    IF is_action_just_pressed(inp, "pause")
    THEN [w EXCEPT !.game.state = "PLAYING"]
    ELSE IF is_action_just_pressed(inp, "restart")
    THEN Game_restart_level(w)
    ELSE w

\* Game.update_level_complete()
Game_update_level_complete(w, inp) ==
    IF is_action_just_pressed(inp, "jump")
    THEN Game_next_level(w)
    ELSE IF is_action_just_pressed(inp, "pause")
    THEN [w EXCEPT !.game.state = "MENU"]
    ELSE w

\* Game.update_game_over()
Game_update_game_over(w, inp) ==
    IF is_action_just_pressed(inp, "restart")
    THEN Game_restart_level(w)
    ELSE IF is_action_just_pressed(inp, "pause")
    THEN [w EXCEPT !.game.state = "MENU"]
    ELSE w

\* update() whose tests of the state are separate if statements: a handler
\* that changes the state is followed by the handler of the new state
Game_update_falls_through(w, inp) ==
    LET a == IF w.game.state = "MENU" THEN Game_update_menu(w, inp) ELSE w
        b == IF a.game.state = "PLAYING" THEN Game_update_playing(a, inp) ELSE a
        c == IF b.game.state = "PAUSED" THEN Game_update_paused(b, inp) ELSE b
        d == IF c.game.state = "LEVEL_COMPLETE" THEN Game_update_level_complete(c, inp) ELSE c
    IN  IF d.game.state = "GAME_OVER" THEN Game_update_game_over(d, inp) ELSE d

\* Game.update()
Game_update(w, inp) ==
    IF w.game.state = "MENU" THEN Game_update_menu(w, inp)
    ELSE IF w.game.state = "PLAYING" THEN Game_update_playing(w, inp)
    ELSE IF w.game.state = "PAUSED" THEN Game_update_paused(w, inp)
    ELSE IF w.game.state = "LEVEL_COMPLETE" THEN Game_update_level_complete(w, inp)
    ELSE IF w.game.state = "GAME_OVER" THEN Game_update_game_over(w, inp)
    ELSE w

\* Game.handle_events, lines 118-120: a QUIT event stops the loop
Game_handle_quit(self, events) ==
    IF \E k \in 1..Len(events) : events[k].type = "QUIT"
    THEN [self EXCEPT !.running = FALSE]
    ELSE self

-----------------------------------------------------------------------------
\* Bounds of the model

\* the player's top-left corner stays within MaxX x MaxY grid cells
MaxX == 6
MaxY == 7
\* |velocity| stays within MaxSpeed grid cells per tick
MaxSpeed == 2

Bounded(self) ==
    /\ self.x >= 0
    /\ self.x <= MaxX * Resolution
    /\ self.y >= 0
    /\ self.y <= MaxY * Resolution
    /\ Abs(self.velocity_x) <= MaxSpeed * Resolution
    /\ Abs(self.velocity_y) <= MaxSpeed * Resolution

-----------------------------------------------------------------------------
\* Level data: the platform list the player is run against, laid out like
\* create_demo_level: plain ground, a gap, a magnetic floor, a magnetic ceiling
\* and a magnetic wall at either end, both marked wall_left

Scene ==
    << Platform(0, 96, 48, 16, FALSE, ORIENTATION_FLOOR),
       Platform(80, 96, 48, 16, TRUE, ORIENTATION_FLOOR),
       Platform(0, 16, 64, 16, TRUE, ORIENTATION_CEILING),
       Platform(-16, 32, 16, 64, TRUE, ORIENTATION_WALL_LEFT),
       Platform(128, 32, 16, 64, TRUE, ORIENTATION_WALL_LEFT) >>

\* Level.__init__ and the add_platform, add_magnet, add_enemy, set_player_start
\* and set_goal calls of a level builder
Level(name, width, height, plats, magnets, enemies, player_start, goal_position, goal_size) ==
    [name |-> name, width |-> width, height |-> height,
     platforms |-> plats, magnets |-> magnets, enemies |-> enemies,
     player_start |-> player_start, goal_position |-> goal_position,
     goal_size |-> goal_size]

\* the level of the player's scene: no magnets, no enemies
SceneLevel ==
    Level("Scene", 128, 128, Scene, << >>, << >>, <<16, 48>>, <<112, 48>>, <<16, 16>>)

\* player_start / reset positions
Starts == {<<16, 48>>, <<80, 32>>}

\* forces handed to apply_magnetic_force
Forces == {<<Resolution, 0>>, <<-Resolution, 0>>, <<0, -Resolution>>, <<0, Resolution>>}

\* arguments of update(platforms): the level's list, or an empty list
UpdateArgs(plats) == {[i \in 1..Len(plats) |-> i], << >>}

-----------------------------------------------------------------------------
\* The player driven by arbitrary calls of its public operations

\* history: jump() calls that returned True since the player last grounded,
\* stuck or was reset
Record(op, ret, jumps) ==
    [op |-> op, ret |-> ret, was |-> player.magnetic_state, jumps |-> jumps]

\* an update(platforms) call grounds the player: some platform of the list is
\* resolved as a floor or stuck to
UpdateGrounds(self, plats, arg) ==
    \E k \in 1..Len(arg) :
        LET before == Player_update_loop(Player_update_integrate(self), plats, arg, k - 1)
            after == Player_update_collide(before, plats, arg[k])
        IN  /\ check_rect_collision(Player_rect(before), Platform_rect(plats[arg[k]]))
            /\ \/ after.magnetic_state = MAGNETIC_STATE_STICKING
               \/ resolve_collision(Player_rect(before), Platform_rect(plats[arg[k]]),
                                    Player_velocity(before)).side = ORIENTATION_FLOOR

Init ==
    /\ levels = <<SceneLevel>>
    /\ game = [Game EXCEPT !.state = "PLAYING", !.current_level = 0]
    /\ input = InputHandler
    /\ \E s \in Starts : player = Player(s[1], s[2])
    /\ last = [op |-> "init", ret |-> FALSE, was |-> MAGNETIC_STATE_NORMAL, jumps |-> 0]

Move ==
    \E h \in {-1, 0, 1}, v \in {-1, 0, 1} :
        /\ player' = Player_move(player, h, v)
        /\ Bounded(player')
        /\ last' = Record("move", FALSE, last.jumps)
        /\ UNCHANGED <<levels, game, input>>

Jump ==
    /\ player' = Player_jump(player)
    /\ Bounded(player')
    /\ last' = Record("jump", Player_jump_result(player),
                      IF Player_jump_result(player) THEN last.jumps + 1 ELSE last.jumps)
    /\ UNCHANGED <<levels, game, input>>

Toggle ==
    /\ player' = Player_toggle_magnetic_state(player)
    /\ last' = Record("toggle", FALSE, last.jumps)
    /\ UNCHANGED <<levels, game, input>>

ApplyForce ==
    \E f \in Forces :
        /\ player' = Player_apply_magnetic_force(player, f)
        /\ Bounded(player')
        /\ last' = Record("force", FALSE, last.jumps)
        /\ UNCHANGED <<levels, game, input>>

Update ==
    \E arg \in UpdateArgs(platforms) :
        /\ player' = Player_update(player, platforms, arg)
        /\ Bounded(player')
        /\ last' = Record("update", FALSE,
                          IF UpdateGrounds(player, platforms, arg) THEN 0 ELSE last.jumps)
        /\ UNCHANGED <<levels, game, input>>

Reset ==
    \E s \in Starts :
        /\ player' = Player_reset(player, s[1], s[2])
        /\ last' = Record("reset", FALSE, 0)
        /\ UNCHANGED <<levels, game, input>>

StickToSurface ==
    \E idx \in 1..Len(platforms), side \in Orientations :
        /\ player' = Player_stick_to_surface(player, platforms, idx, side)
        /\ last' = Record("stick", FALSE,
                          IF player'.magnetic_state = MAGNETIC_STATE_STICKING
                          THEN 0 ELSE last.jumps)
        /\ UNCHANGED <<levels, game, input>>

Next == Move \/ Jump \/ Toggle \/ ApplyForce \/ Update \/ Reset

Spec == Init /\ [][Next]_vars

NextStick == Next \/ StickToSurface

SpecStick == Init /\ [][NextStick]_vars

-----------------------------------------------------------------------------
\* The game driven by frames of the run loop: handle_events(), then update()

\* keys that are held from frame to frame, and keys that are tapped within a frame
HeldKeys == {"K_RIGHT"}
TapKeys == {"K_SPACE", "K_ESCAPE", "K_r", "K_DOWN"}

\* Game._load_levels(): [tutorial, demo], each cut down to a few grid cells.
\* The tutorial is a shaft with the goal above the ground; the demo has
\* ground, a magnetic platform that moves up and down with a patrolling
\* enemy on it, a magnet above it, and beyond the platform a pit and the goal.
GameLevels ==
    << Level("Tutorial", 32, 64,
             << Platform(-48, 64, 128, 64, FALSE, ORIENTATION_FLOOR),
                Platform(-48, -64, 48, 128, FALSE, ORIENTATION_WALL_LEFT),
                Platform(32, -64, 48, 128, FALSE, ORIENTATION_WALL_RIGHT) >>,
             << >>, << >>,
             <<0, 16>>, <<0, -16>>, <<16, 16>>),
       Level("Demo Level", 96, 64,
             << Platform(-48, 64, 80, 192, FALSE, ORIENTATION_FLOOR),
                MovingPlatform(32, 64, 32, 32, 32, 32, 50, TRUE, ORIENTATION_FLOOR),
                Platform(32, 96, 32, 160, FALSE, ORIENTATION_FLOOR),
                Platform(-48, -64, 48, 128, FALSE, ORIENTATION_WALL_LEFT),
                Platform(96, -64, 48, 320, FALSE, ORIENTATION_WALL_RIGHT) >>,
             << Magnet(48, 0, POLARITY_ATTRACT, 64, 24) >>,
             << PatrolEnemy(32, 48, 16, 16, 16, 16, TRUE) >>,
             <<0, 16>>, <<80, 0>>, <<16, 16>>) >>

\* pygame.event.get(): the events of one frame
EventLists(inp) ==
    {<< >>, <<Quit>>}
    \cup {<<KeyDown(k)>> : k \in HeldKeys \ inp.keys_pressed}
    \cup {<<KeyUp(k)>> : k \in inp.keys_pressed}
    \cup {<<KeyDown(k), KeyUp(k)>> : k \in TapKeys}

\* the physics of update_playing runs in this frame
PhysicsRuns(w, inp) ==
    /\ w.game.state = "PLAYING"
    /\ w.player # None
    /\ w.game.current_level # NoLevel
    /\ ~is_action_just_pressed(inp, "pause")
    /\ ~is_action_just_pressed(inp, "restart")

\* the player's update of this frame comes out differently against the
\* platforms as they are before and after the level's update of this frame
StalePlatforms(w, inp) ==
    /\ PhysicsRuns(w, inp)
    /\ LET level == current_level_of(w)
           forced == Game_playing_force(Game_playing_input(w.player, inp), level)
           moved == Level_update_platforms(level).platforms
       IN  Player_update(forced, level.platforms, AllOf(level.platforms))
               # Player_update(forced, moved, AllOf(moved))

\* one iteration of Game.run: handle_events() and update(); rendering changes nothing
Frame(events) ==
    /\ game.running
    /\ input' = InputHandler_update(input, events)
    /\ \E before \in {[game |-> Game_handle_quit(game, events),
                       player |-> player, levels |-> levels]} :
       \E after \in {Game_update(before, input')} :
           /\ game' = after.game
           /\ player' = after.player
           /\ levels' = after.levels
           /\ last' = [op |-> "frame", stale |-> StalePlatforms(before, input')]

InitGame ==
    /\ levels = GameLevels
    /\ game = Game
    /\ player = None
    /\ input = InputHandler
    /\ last = [op |-> "init", stale |-> FALSE]

FrameMenu == game.state = "MENU" /\ \E events \in EventLists(input) : Frame(events)

FramePlaying == game.state = "PLAYING" /\ \E events \in EventLists(input) : Frame(events)

FramePaused == game.state = "PAUSED" /\ \E events \in EventLists(input) : Frame(events)

FrameLevelComplete ==
    game.state = "LEVEL_COMPLETE" /\ \E events \in EventLists(input) : Frame(events)

FrameGameOver == game.state = "GAME_OVER" /\ \E events \in EventLists(input) : Frame(events)

NextGame == FrameMenu \/ FramePlaying \/ FramePaused \/ FrameLevelComplete \/ FrameGameOver

SpecGame == InitGame /\ [][NextGame]_vars

\* the indices _start_level is called with: those of the levels and two on
\* either side of them
LevelIndices == -2 .. Len(GameLevels) + 1

\* game._start_level(level_index), called between two frames as the tests of
\* tests/test_game.py call it, in the states in which the game calls it
StartLevel ==
    /\ game.state \in {"MENU", "LEVEL_COMPLETE"}
    /\ \E level_index \in LevelIndices :
        \E after \in {Game_start_level([game |-> game, player |-> player,
                                        levels |-> levels], level_index)} :
            /\ game' = after.game
            /\ player' = after.player
            /\ levels' = after.levels
            /\ last' = [op |-> "start_level", level_index |-> level_index]
            /\ UNCHANGED input

NextStart == NextGame \/ StartLevel

SpecStart == InitGame /\ [][NextStart]_vars

-----------------------------------------------------------------------------
\* physics.py called directly: check_rect_collision and resolve_collision on
\* rects and velocities like those of tests/test_physics.py, every body rect
\* placed around and inside the platform rect

BodyRects ==
    {<<x, y, 20, 20>> : x \in {45, 50, 55, 60, 70, 75, 80, 85},
                        y \in {70, 80, 85, 90, 95, 100, 110, 115, 120}}

PlatformRects == {<<0, 100, 200, 20>>, <<60, 100, 20, 20>>}

Velocities == {<<vx, vy>> : vx \in {-5, 0, 5}, vy \in {-5, 0, 5}}

\* the arguments of a call that is about to be made
InitCollide ==
    /\ levels = GameLevels
    /\ game = Game
    /\ player = None
    /\ input = InputHandler
    /\ \E b \in BodyRects, p \in PlatformRects, v \in Velocities :
           last = [op |-> "call", player_rect |-> b, platform_rect |-> p, velocity |-> v]

CheckRectCollision ==
    /\ last.op = "call"
    /\ last' = [op |-> "check_rect_collision",
                player_rect |-> last.player_rect, platform_rect |-> last.platform_rect,
                velocity |-> last.velocity,
                result |-> check_rect_collision(last.player_rect, last.platform_rect)]
    /\ UNCHANGED <<player, levels, game, input>>

ResolveCollision ==
    /\ last.op = "call"
    /\ last' = [op |-> "resolve_collision",
                player_rect |-> last.player_rect, platform_rect |-> last.platform_rect,
                velocity |-> last.velocity,
                result |-> resolve_collision(last.player_rect, last.platform_rect,
                                             last.velocity)]
    /\ UNCHANGED <<player, levels, game, input>>

NextCollide == CheckRectCollision \/ ResolveCollision

SpecCollide == InitCollide /\ [][NextCollide]_vars

-----------------------------------------------------------------------------
\* Free fall: physics.apply_gravity on the velocity of a Normal player, and
\* Enemy.update with an empty platform list, from any vertical velocity within
\* MAX_FALL_SPEED

\* the enemy falls at most MaxDrop times MAX_FALL_SPEED pixels
MaxDrop == 4

FallSpeeds == {v \in -MAX_FALL_SPEED..MAX_FALL_SPEED : v % (Resolution \div 2) = 0}

\* the enemy of the level of the free fall
falling == levels[1].enemies[1]

InitFall ==
    /\ game = [Game EXCEPT !.state = "PLAYING", !.current_level = 0]
    /\ input = InputHandler
    /\ \E v \in FallSpeeds : player = [Player(0, 0) EXCEPT !.velocity_y = v]
    /\ \E v \in FallSpeeds :
           levels = << Level("Fall", 128, 128, << >>, << >>,
                             << [Enemy(0, 0, 16, 16, 0, TRUE) EXCEPT !.velocity_y = v] >>,
                             <<0, 0>>, <<112, 48>>, <<16, 16>>) >>
    /\ last = [op |-> "init", before |-> 0]

\* velocity_y = apply_gravity(velocity_y, magnetic_state) of a Normal body
ApplyGravity ==
    /\ player' = [player EXCEPT
                     !.velocity_y = apply_gravity(player.velocity_y, player.magnetic_state)]
    /\ last' = [op |-> "apply_gravity", before |-> player.velocity_y]
    /\ UNCHANGED <<levels, game, input>>

\* Enemy.update([])
EnemyUpdate ==
    /\ falling.y < MaxDrop * MAX_FALL_SPEED
    /\ levels' = [levels EXCEPT ![1].enemies[1] = Enemy_update(falling, << >>)]
    /\ last' = [op |-> "enemy_update", before |-> falling.velocity_y]
    /\ UNCHANGED <<player, game, input>>

NextFall == ApplyGravity \/ EnemyUpdate

SpecFall == InitFall /\ [][NextFall]_vars

-----------------------------------------------------------------------------
\* A moving platform under the update() calls of Level.update, with the
\* waypoints of tests/test_platforms.py and speeds that are negative, zero,
\* divisors of the path, non-divisors of it and longer than it

PlatformSpeeds == {-3, 0, 2, 3, 30, 100, 250}

PlatformEnds == {<<200, 200>>, <<300, 100>>}

\* the platform of the level
moving == levels[1].platforms[1]

InitPlatform ==
    /\ game = [Game EXCEPT !.state = "PLAYING", !.current_level = 0]
    /\ input = InputHandler
    /\ player = Player(0, 0)
    /\ \E speed \in PlatformSpeeds, end \in PlatformEnds :
           levels = << Level("Path", 400, 400,
                             << MovingPlatform(100, 200, 50, 20, end[1], end[2], speed,
                                               FALSE, ORIENTATION_FLOOR) >>,
                             << >>, << >>, <<0, 0>>, <<112, 48>>, <<16, 16>>) >>
    /\ last = [op |-> "init", before |-> 0]

\* Level.update(): platform.update() for the MovingPlatform of the level
UpdatePlatform ==
    /\ levels' = [levels EXCEPT ![1] = Level_update_platforms(levels[1])]
    /\ last' = [op |-> "update", before |-> moving.progress]
    /\ UNCHANGED <<player, game, input>>

NextPlatform == UpdatePlatform

SpecPlatform == InitPlatform /\ [][NextPlatform]_vars

\* the run loop calls Level.update() in every tick, so update() is called again
\* and again
FairSpecPlatform == SpecPlatform /\ WF_vars(UpdatePlatform)

-----------------------------------------------------------------------------
\* A magnet asked for its force at points around it, switched on and off in
\* between: Magnet(100, 100, ...) as in tests/test_magnets.py, with ranges
\* that put some of the points on the rim of the field and some outside it

MagnetRanges == {50, 64}

MagnetStrengths == {24, 160}

\* offsets of the point from the centre; (18, 24), (30, 40) and the offsets
\* along an axis are at a whole distance
PointOffsets == {-64, -50, -40, -30, -24, -16, 0, 16, 18, 24, 30, 40, 50, 64}

\* the magnet of the level
magnet == levels[1].magnets[1]

InitMagnet ==
    /\ game = [Game EXCEPT !.state = "PLAYING", !.current_level = 0]
    /\ input = InputHandler
    /\ player = Player(0, 0)
    /\ \E polarity \in {POLARITY_ATTRACT, POLARITY_REPEL},
          range_ \in MagnetRanges, strength \in MagnetStrengths :
           levels = << Level("Field", 200, 200, << >>,
                             << Magnet(100, 100, polarity, range_, strength) >>,
                             << >>, <<0, 0>>, <<112, 48>>, <<16, 16>>) >>
    /\ last = [op |-> "init", object_pos |-> <<0, 0>>, result |-> <<0, 0>>]

\* magnet.toggle()
MagnetToggle ==
    /\ levels' = [levels EXCEPT ![1].magnets[1] = Magnet_toggle(magnet)]
    /\ last' = [op |-> "toggle", object_pos |-> <<0, 0>>, result |-> <<0, 0>>]
    /\ UNCHANGED <<player, game, input>>

\* magnet.get_force_on_object(object_pos)
GetForceOnObject ==
    \E dx \in PointOffsets, dy \in PointOffsets :
        /\ last' = [op |-> "get_force_on_object",
                    object_pos |-> <<magnet.x + dx, magnet.y + dy>>,
                    result |-> Magnet_get_force_on_object(
                                   magnet, <<magnet.x + dx, magnet.y + dy>>)]
        /\ UNCHANGED <<player, levels, game, input>>

\* magnet.set_polarity(polarity), also with a value that is no polarity
MagnetSetPolarity ==
    \E polarity \in {POLARITY_ATTRACT, POLARITY_REPEL, "north"} :
        /\ levels' = [levels EXCEPT
                        ![1].magnets[1] = Magnet_set_polarity(magnet, polarity)]
        /\ last' = [op |-> "set_polarity", object_pos |-> <<0, 0>>,
                    result |-> <<0, 0>>, polarity |-> polarity,
                    was |-> magnet.polarity]
        /\ UNCHANGED <<player, game, input>>

NextMagnet == MagnetToggle \/ GetForceOnObject \/ MagnetSetPolarity

SpecMagnet == InitMagnet /\ [][NextMagnet]_vars

-----------------------------------------------------------------------------
\* A level that starts without magnets, as Level() does; magnets are added and
\* toggled, and the total force is asked for at points between them.

MaxMagnets == 3

\* the magnets that are added: a pair that mirror one another in the point
\* (100, 100), and two magnets above and below it
FieldMagnets ==
    { Magnet(70, 60, POLARITY_ATTRACT, 64, 400),
      Magnet(130, 140, POLARITY_ATTRACT, 64, 400),
      Magnet(100, 52, POLARITY_REPEL, 64, 24),
      Magnet(100, 132, POLARITY_ATTRACT, 64, 48) }

FieldPoints == { <<100, 100>>, <<100, 76>>, <<84, 100>>, <<116, 84>> }

InitField ==
    /\ game = [Game EXCEPT !.state = "PLAYING", !.current_level = 0]
    /\ input = InputHandler
    /\ player = Player(0, 0)
    /\ levels = << Level("Untitled", 200, 200, << >>, << >>, << >>,
                         <<0, 0>>, <<112, 48>>, <<16, 16>>) >>
    /\ last = [op |-> "init"]

\* level.add_magnet(magnet)
AddMagnet ==
    /\ Len(levels[1].magnets) < MaxMagnets
    /\ \E m \in FieldMagnets :
           levels' = [levels EXCEPT ![1] = Level_add_magnet(levels[1], m)]
    /\ last' = [op |-> "add_magnet"]
    /\ UNCHANGED <<player, game, input>>

\* level.magnets[i].toggle()
ToggleMagnet ==
    \E i \in 1..Len(levels[1].magnets) :
        /\ levels' = [levels EXCEPT
                        ![1].magnets[i] = Magnet_toggle(levels[1].magnets[i])]
        /\ last' = [op |-> "toggle", index |-> i]
        /\ UNCHANGED <<player, game, input>>

\* level.get_total_magnetic_force(position)
GetTotalMagneticForce ==
    \E position \in FieldPoints :
        /\ last' = [op |-> "get_total_magnetic_force", position |-> position,
                    result |-> Level_get_total_magnetic_force(levels[1], position)]
        /\ UNCHANGED <<player, levels, game, input>>

NextField == AddMagnet \/ ToggleMagnet \/ GetTotalMagneticForce

SpecField == InitField /\ [][NextField]_vars

-----------------------------------------------------------------------------
\* A level with a moving and a static platform, a magnet and one enemy of each
\* kind; the level is updated, its magnet
\* switched, its enemies killed, and it is saved to a dict and loaded back.

\* Level.add_platform(platform)
Level_add_platform(self, platform) == [self EXCEPT !.platforms = Append(@, platform)]

\* Level.add_enemy(enemy)
Level_add_enemy(self, enemy) == [self EXCEPT !.enemies = Append(@, enemy)]

\* Level.to_dict(); the background colour is left to the renderer
Level_to_dict(self) ==
    [name |-> self.name, width |-> self.width, height |-> self.height,
     player_start |-> self.player_start,
     goal_position |-> self.goal_position,
     goal_size |-> self.goal_size,
     platforms |-> [i \in 1..Len(self.platforms) |->
                      IF self.platforms[i].class = "MovingPlatform"
                      THEN MovingPlatform_to_dict(self.platforms[i])
                      ELSE Platform_to_dict(self.platforms[i])],
     magnets |-> [i \in 1..Len(self.magnets) |-> Magnet_to_dict(self.magnets[i])],
     enemies |-> [i \in 1..Len(self.enemies) |-> enemy_to_dict(self.enemies[i])]]

\* Level.from_dict, lines 126-139: the three loops over the first kp platforms,
\* km magnets and ke enemies of the dict
RECURSIVE Level_load(_, _, _, _, _)
Level_load(level, data, kp, km, ke) ==
    IF ke > 0
    THEN Level_add_enemy(Level_load(level, data, kp, km, ke - 1),
                         create_enemy_from_dict(data.enemies[ke]))
    ELSE IF km > 0
    THEN Level_add_magnet(Level_load(level, data, kp, km - 1, 0),
                          Magnet_from_dict(data.magnets[km]))
    ELSE IF kp > 0
    THEN LET loaded == Level_load(level, data, kp - 1, 0, 0)
         IN  IF dict_get(data.platforms[kp], "moving", FALSE)
             THEN Level_add_platform(loaded, MovingPlatform_from_dict(data.platforms[kp]))
             ELSE Level_add_platform(loaded, Platform_from_dict(data.platforms[kp]))
    ELSE level

\* Level.from_dict(data).  The defaults of 'width' and 'height' are constants
\* of constants.py; the dicts handed in here have both keys.
Level_from_dict(data) ==
    Level_load(Level(dict_get(data, "name", "Untitled"), data.width, data.height,
                     << >>, << >>, << >>,
                     dict_get(data, "player_start", <<100, 100>>),
                     dict_get(data, "goal_position", <<700, 500>>),
                     dict_get(data, "goal_size", <<50, 50>>)),
               data,
               Len(dict_get(data, "platforms", << >>)),
               Len(dict_get(data, "magnets", << >>)),
               Len(dict_get(data, "enemies", << >>)))

\* the enemies are followed while they are no faster than this many steps of
\* the velocity grid
MaxEnemySpeed == 3

\* the levels at the start, built as create_demo_level builds its level; the
\* magnet is 16 wide and 48 high
StoredLevels ==
    { Level_add_enemy(Level_add_enemy(Level_add_enemy(
        Level_add_magnet(
          Level_add_platform(Level_add_platform(
            Level("Stored", 160, 128, << >>, << >>, << >>,
                  <<0, 0>>, <<144, 0>>, <<16, 16>>),
            MovingPlatform(16, 48, 32, 16, 80, 16, speed, TRUE, ORIENTATION_CEILING)),
            Platform(0, 112, 160, 16, is_magnetic, ORIENTATION_FLOOR)),
          [Magnet(40, 80, POLARITY_REPEL, 32, 160) EXCEPT !.width = 16, !.height = 48]),
        FlyingEnemy(96, 32, 16, 1, 16, 16, 0, is_magnetic)),
        Enemy(32, 96, 16, 16, 0, is_magnetic)),
        PatrolEnemy(96, 96, 32, 16, 16, Resolution, is_magnetic))
      : speed \in {50, 100}, is_magnetic \in BOOLEAN }

InitLevel ==
    /\ game = [Game EXCEPT !.state = "PLAYING", !.current_level = 0]
    /\ input = InputHandler
    /\ player = Player(0, 0)
    /\ \E level \in StoredLevels : levels = << level >>
    /\ last = [op |-> "init"]

\* level.update()
LevelUpdate ==
    /\ \A i \in 1..Len(levels[1].enemies) :
          LET e == levels[1].enemies[i]
          IN  /\ Abs(e.velocity_x) <= MaxEnemySpeed * Resolution
              /\ Abs(e.velocity_y) <= MaxEnemySpeed * Resolution
              /\ e.x >= 0
              /\ e.x <= levels[1].width
              /\ e.y >= 0
              /\ e.y <= levels[1].height
              /\ e.class = "FlyingEnemy" => e.time < 4
    /\ levels' = [levels EXCEPT ![1] = Level_update(levels[1])]
    /\ last' = [op |-> "update"]
    /\ UNCHANGED <<player, game, input>>

\* level.enemies[i].kill()
KillEnemy ==
    \E i \in 1..Len(levels[1].enemies) :
        /\ levels[1].enemies[i].alive
        /\ levels' = [levels EXCEPT ![1].enemies[i] = Enemy_kill(levels[1].enemies[i])]
        /\ last' = [op |-> "kill", index |-> i]
        /\ UNCHANGED <<player, game, input>>

\* Level.from_dict(level.to_dict())
SaveAndLoad ==
    /\ levels' = << Level_from_dict(Level_to_dict(levels[1])) >>
    /\ last' = [op |-> "save_and_load"]
    /\ UNCHANGED <<player, game, input>>

NextLevel == LevelUpdate \/ ToggleMagnet \/ MagnetSetPolarity \/ SaveAndLoad

SpecLevel == InitLevel /\ [][NextLevel]_vars

\* the same level without the saving, and with enemies that are killed
NextKill == LevelUpdate \/ ToggleMagnet \/ MagnetSetPolarity \/ KillEnemy

SpecKill == InitLevel /\ [][NextKill]_vars


\* A game whose second level has two enemies that stand still on the ground
\* between the player's start and the goal, the second of them inside the
\* goal; enemies are killed between two frames, as the tests kill them.
HazardLevels ==
    << GameLevels[1],
       Level("Hazard", 64, 64,
             << Platform(-48, 64, 160, 64, FALSE, ORIENTATION_FLOOR),
                Platform(-48, -64, 48, 128, FALSE, ORIENTATION_WALL_LEFT),
                Platform(64, -64, 48, 128, FALSE, ORIENTATION_WALL_RIGHT) >>,
             << >>,
             << Enemy(32, 48, 16, 16, 0, FALSE), Enemy(48, 48, 16, 16, 0, FALSE) >>,
             <<0, 16>>, <<48, 48>>, <<16, 16>>) >>

InitHazard ==
    /\ levels = HazardLevels
    /\ game = Game
    /\ player = None
    /\ input = InputHandler
    /\ last = [op |-> "init", stale |-> FALSE]

\* current_level.enemies[i].kill()
KillLevelEnemy ==
    /\ game.running
    /\ game.current_level # NoLevel
    /\ \E i \in 1..Len(levels[game.current_level + 1].enemies) :
        /\ levels[game.current_level + 1].enemies[i].alive
        /\ levels' = [levels EXCEPT ![game.current_level + 1].enemies[i] =
                          Enemy_kill(levels[game.current_level + 1].enemies[i])]
        /\ last' = [op |-> "kill", index |-> i]
        /\ UNCHANGED <<player, game, input>>

\* a frame in the menu in which the up key is tapped
FrameMenuUp == game.state = "MENU" /\ Frame(<<KeyDown("K_UP"), KeyUp("K_UP")>>)

NextHazard == NextGame \/ FrameMenuUp \/ KillLevelEnemy

SpecHazard == InitHazard /\ [][NextHazard]_vars

\* The input handler on its own: update(events) with every list of at most
\* MaxEvents events over three keys, two of them bound to one action.
MaxEvents == 2

InputKeys == {"K_LEFT", "K_a", "K_SPACE"}

InputEvents == {Quit} \cup {KeyDown(k) : k \in InputKeys} \cup {KeyUp(k) : k \in InputKeys}

RECURSIVE ListsOf(_, _)
ListsOf(events, n) ==
    IF n = 0
    THEN {<< >>}
    ELSE ListsOf(events, n - 1)
         \cup {Append(l, e) : l \in ListsOf(events, n - 1), e \in events}

InitInput ==
    /\ input = InputHandler
    /\ levels = << >>
    /\ game = Game
    /\ player = None
    /\ last = [op |-> "init", events |-> << >>]

\* input_handler.update(pygame.event.get())
InputUpdate ==
    \E events \in ListsOf(InputEvents, MaxEvents) :
        /\ input' = InputHandler_update(input, events)
        /\ last' = [op |-> "update", events |-> events]
        /\ UNCHANGED <<player, levels, game>>

NextInput == InputUpdate

SpecInput == InitInput /\ [][NextInput]_vars

\* A patrolling enemy on its own: PatrolEnemy(x, y, patrol_distance, speed)
\* without a magnetic force, standing on a floor that reaches beyond both
\* ends of its patrol, and its update(platforms) in every tick.  The speed
\* and the patrol distance are whole pixels, speed <= patrol_distance.
MaxPatrol == 7

PatrolSpeeds == 1..3

PatrolFloor == << Platform(-64, 64, 192, 32, FALSE, ORIENTATION_FLOOR) >>

PatrolLevels ==
    {<< Level("Patrol", 64, 96, PatrolFloor, << >>,
              << PatrolEnemy(start_x, 48, d, 16, 16, s, FALSE) >>,
              <<0, 16>>, <<48, 0>>, <<16, 16>>) >> :
        start_x \in {0, 16}, s \in PatrolSpeeds, d \in 1..MaxPatrol}

patrol == levels[1].enemies[1]

InitPatrol ==
    /\ levels \in {l \in PatrolLevels : l[1].enemies[1].speed <= l[1].enemies[1].patrol_distance}
    /\ player = None
    /\ game = Game
    /\ input = InputHandler
    /\ last = [op |-> "init"]

\* enemy.update(platforms)
PatrolUpdate ==
    /\ levels' = [levels EXCEPT ![1].enemies[1] = PatrolEnemy_update(patrol, levels[1].platforms)]
    /\ last' = [op |-> "update"]
    /\ UNCHANGED <<player, game, input>>

NextPatrol == PatrolUpdate

SpecPatrol == InitPatrol /\ [][NextPatrol]_vars

\* Level.update() calls the update of every enemy in every tick of the game loop
FairSpecPatrol == SpecPatrol /\ WF_vars(PatrolUpdate)

\* A level with a pit: a ledge on the left, the goal high up on the right, a
\* magnet far out of range, and nothing below the player, who is in the air
\* beside the ledge with some vertical velocity.  No key is held or pressed.
PitLevel ==
    Level("Pit", 96, 64,
          << Platform(-48, 64, 48, 64, FALSE, ORIENTATION_FLOOR) >>,
          << Magnet(-200, 0, POLARITY_ATTRACT, 64, 24) >>,
          << >>,
          <<0, 16>>, <<80, -64>>, <<16, 16>>)

PitPlayers ==
    {[Player(x, y) EXCEPT !.velocity_y = vy, !.boots_active = boots] :
        x \in {0, 16, 32}, y \in {0, 16, 32, 48},
        vy \in {-2 * GRAVITY, -GRAVITY, 0, GRAVITY, 2 * GRAVITY}, boots \in BOOLEAN}

InitPit ==
    /\ levels = << PitLevel >>
    /\ game = [Game EXCEPT !.state = "PLAYING", !.current_level = 0,
                           !.current_level_index = 0]
    /\ player \in PitPlayers
    /\ input = InputHandler
    /\ last = [op |-> "init", stale |-> FALSE]

\* one iteration of Game.run without events: handle_events() finds nothing
\* and update() runs update_playing(), here stage by stage
PitTick ==
    /\ game.running
    /\ game.state = "PLAYING"
    /\ \E inp \in {InputHandler_update(input, << >>)} :
       \E moved \in {Game_playing_input(player, inp)} :
       \E forced \in {Game_playing_force(moved, levels[1])} :
       \E updated \in {Player_update(forced, platforms, AllOf(platforms))} :
       \E level \in {Level_update(levels[1])} :
       \E after \in {Game_playing_checks([game |-> game, player |-> updated,
                                          levels |-> << level >>])} :
           /\ input' = inp
           /\ game' = after.game
           /\ player' = after.player
           /\ levels' = after.levels
           /\ last' = [op |-> "frame", stale |-> FALSE]

NextPit == PitTick

SpecPit == InitPit /\ [][NextPit]_vars

\* Game.run calls update() in every iteration of its loop
FairSpecPit == SpecPit /\ WF_vars(PitTick)
-----------------------------------------------------------------------------
\* Claims

Sticking == player.magnetic_state = MAGNETIC_STATE_STICKING

\* C1: whenever the player is Sticking, current_surface is not None and
\* current_orientation equals the orientation of the current_surface platform.
C1_StickingOrientationMatchesSurface ==
    Sticking =>
        /\ player.current_surface # NoSurface
        /\ player.current_orientation = platforms[player.current_surface].orientation

\* C2: whenever boots_active is False the player is Normal, under calls that
\* include stick_to_surface.
C2_BootsOffImpliesNormal ==
    ~player.boots_active => player.magnetic_state = MAGNETIC_STATE_NORMAL

\* the boots were switched off while the player was Sticking
C2_Witness ==
    /\ last.op = "toggle"
    /\ last.was = MAGNETIC_STATE_STICKING
    /\ ~player.boots_active

\* what the handlers of Game work on, as a frame finds it
World == [game |-> game, player |-> player, levels |-> levels]

\* the player of this frame after its input and the force of the magnets
ForcedPlayer ==
    Game_playing_force(Game_playing_input(player, input'), current_level_of(World))

\* C3 as stated: in every PLAYING tick the moving platforms move first, so
\* that the player resolves its collisions against the platform positions
\* already updated for that tick.
C3_PlatformsMoveBeforeBodies ==
    [][ PhysicsRuns(World, input') =>
          LET moved == Level_update_platforms(current_level_of(World)).platforms
          IN  player' = Player_update(ForcedPlayer, moved, AllOf(moved)) ]_vars

\* C3, amended: in every PLAYING tick without pause or restart input the
\* player takes its input and the force of the magnets and resolves its
\* collisions against the platform positions of the tick before; then the
\* moving platforms move; then every enemy takes the force at its position
\* and resolves its collisions against the positions updated in this tick.
C3_PlayerThenPlatformsThenEnemies ==
    [][ PhysicsRuns(World, input') =>
          LET level == current_level_of(World)
              moved == Level_update_platforms(level)
              after == levels'[game.current_level + 1]
          IN  /\ player' = Player_update(ForcedPlayer, level.platforms, AllOf(level.platforms))
              /\ after.platforms = moved.platforms
              /\ Len(after.enemies) = Len(level.enemies)
              /\ \A i \in 1..Len(level.enemies) :
                     after.enemies[i] =
                         update_enemy(
                             IF level.enemies[i].is_magnetic
                             THEN Enemy_apply_magnetic_force(
                                      level.enemies[i],
                                      Level_get_total_magnetic_force(
                                          level, Enemy_position(level.enemies[i])))
                             ELSE level.enemies[i],
                             moved.platforms) ]_vars

\* a tick in which the player came out differently against the platforms as
\* they were than it would have against the platforms as they were moved
C3_Witness ==
    /\ last.op = "frame"
    /\ last.stale
    /\ game.current_level # NoLevel

\* the state in which update(arg) handles the k-th platform of arg, and the one it leaves
BeforePlatform(arg, k) ==
    Player_update_loop(Player_update_integrate(player), platforms, arg, k - 1)

AfterPlatform(arg, k) ==
    Player_update_loop(Player_update_integrate(player), platforms, arg, k)

\* the k-th platform of arg overlaps the player when update(arg) handles it
Overlaps(arg, k) ==
    check_rect_collision(Player_rect(BeforePlatform(arg, k)), Platform_rect(platforms[arg[k]]))

\* the collision side resolve_collision then returns
SideAt(arg, k) ==
    resolve_collision(Player_rect(BeforePlatform(arg, k)), Platform_rect(platforms[arg[k]]),
                      Player_velocity(BeforePlatform(arg, k))).side

\* update(arg) sticks the player to the k-th platform of arg
SticksAt(arg, k) ==
    /\ Overlaps(arg, k)
    /\ SideAt(arg, k) # ""
    /\ platforms[arg[k]].is_magnetic
    /\ BeforePlatform(arg, k).boots_active

\* C4: in update(), a platform resolved with a non-empty side that is magnetic,
\* while the boots are active, leaves the player Sticking to it with zero
\* velocity, on_ground, jump_count 0 and current_orientation the collision side;
\* any other platform leaves magnetic_state and current_surface as they were.
C4_StickOnResolvedMagneticCollision ==
    \A arg \in UpdateArgs(platforms) : \A k \in 1..Len(arg) :
        /\ SticksAt(arg, k) =>
              /\ AfterPlatform(arg, k).magnetic_state = MAGNETIC_STATE_STICKING
              /\ AfterPlatform(arg, k).velocity_x = 0
              /\ AfterPlatform(arg, k).velocity_y = 0
              /\ AfterPlatform(arg, k).on_ground
              /\ AfterPlatform(arg, k).jump_count = 0
              /\ AfterPlatform(arg, k).current_surface = arg[k]
              /\ AfterPlatform(arg, k).current_orientation = SideAt(arg, k)
        /\ ~SticksAt(arg, k) =>
              /\ AfterPlatform(arg, k).magnetic_state = BeforePlatform(arg, k).magnetic_state
              /\ AfterPlatform(arg, k).current_surface = BeforePlatform(arg, k).current_surface
              /\ AfterPlatform(arg, k).current_orientation
                     = BeforePlatform(arg, k).current_orientation

\* an update() has just turned a Normal player into one Sticking to a platform
C4_Witness ==
    /\ last.op = "update"
    /\ last.was = MAGNETIC_STATE_NORMAL
    /\ Sticking
    /\ player.current_surface # NoSurface

\* C5: every step from Sticking to Normal leaves current_surface None and
\* on_ground False, and switching the boots off while Sticking detaches in
\* that same call.
C5_DetachClearsSurfaceAndGround ==
    [][ /\ (Sticking /\ player'.magnetic_state = MAGNETIC_STATE_NORMAL) =>
              (player'.current_surface = NoSurface /\ ~player'.on_ground)
        /\ (Sticking /\ last'.op = "toggle") =>
              /\ ~player'.boots_active
              /\ player'.magnetic_state = MAGNETIC_STATE_NORMAL
              /\ player'.current_surface = NoSurface
              /\ ~player'.on_ground ]_vars

\* the contact check at the end of an update() has released a Sticking player
C5_Witness ==
    /\ last.op = "update"
    /\ last.was = MAGNETIC_STATE_STICKING
    /\ player.magnetic_state = MAGNETIC_STATE_NORMAL

\* C6: a step from Sticking to Normal is a jump, toggle, update or reset call;
\* move and apply_magnetic_force never change magnetic_state, current_surface
\* or current_orientation.
C6_OnlyDetachMechanicsRelease ==
    [][ /\ (Sticking /\ player'.magnetic_state = MAGNETIC_STATE_NORMAL) =>
              last'.op \in {"jump", "toggle", "update", "reset"}
        /\ last'.op \in {"move", "force"} =>
              /\ player'.magnetic_state = player.magnetic_state
              /\ player'.current_surface = player.current_surface
              /\ player'.current_orientation = player.current_orientation ]_vars

\* a force was applied to a Sticking player
C6_Witness ==
    /\ last.op = "force"
    /\ last.was = MAGNETIC_STATE_STICKING
    /\ Sticking

\* C7: jump() while Sticking returns True, leaves the player Normal with the
\* velocity it had plus PLAYER_JUMP_STRENGTH times the normal of
\* current_orientation and jump_count 1; then one more jump() returns True
\* and the one after it returns False.
C7_StickJump ==
    [][ (Sticking /\ last'.op = "jump") =>
          /\ last'.ret
          /\ player'.magnetic_state = MAGNETIC_STATE_NORMAL
          /\ player'.velocity_x = player.velocity_x
                + PLAYER_JUMP_STRENGTH *
                  (CASE player.current_orientation = ORIENTATION_WALL_LEFT -> 1
                     [] player.current_orientation = ORIENTATION_WALL_RIGHT -> -1
                     [] OTHER -> 0)
          /\ player'.velocity_y = player.velocity_y
                + PLAYER_JUMP_STRENGTH *
                  (CASE player.current_orientation = ORIENTATION_FLOOR -> -1
                     [] player.current_orientation = ORIENTATION_CEILING -> 1
                     [] OTHER -> 0)
          /\ player'.jump_count = 1
          /\ Player_jump_result(player')
          /\ ~Player_jump_result(Player_jump(player')) ]_vars

\* a jump() has just taken the player off a wall
C7_Witness ==
    /\ last.op = "jump"
    /\ last.was = MAGNETIC_STATE_STICKING
    /\ player.velocity_x # 0

\* the state after n further jump() calls
RECURSIVE Jumps(_, _)
Jumps(self, n) == IF n = 0 THEN self ELSE Player_jump(Jumps(self, n - 1))

\* C8: from the ground three jump() calls in a row return True, True, False;
\* at most max_jumps jump() calls return True between two groundings or
\* stickings; a successful jump of a Normal player sets velocity_y to
\* -PLAYER_JUMP_STRENGTH, on_ground to False and adds one to jump_count; a
\* jump() that returns False changes nothing.
C8_JumpBudget ==
    /\ [](last.jumps <= max_jumps)
    /\ []((player.on_ground /\ player.jump_count = 0 /\ ~Sticking) =>
              /\ Player_jump_result(player)
              /\ Player_jump_result(Jumps(player, 1))
              /\ ~Player_jump_result(Jumps(player, 2)))
    /\ [][ (last'.op = "jump" /\ ~Sticking) =>
              IF last'.ret
              THEN player' = [player EXCEPT !.velocity_y = -PLAYER_JUMP_STRENGTH,
                                            !.on_ground = FALSE,
                                            !.jump_count = player.jump_count + 1]
              ELSE player' = player ]_vars

\* the second jump() since the player walked off a ledge has returned True
C8_Witness ==
    /\ last.op = "jump"
    /\ last.ret
    /\ last.jumps = max_jumps
    /\ ~Player_jump_result(player)

\* C9: 0 <= jump_count <= max_jumps.
C9_JumpCountRange ==
    /\ player.jump_count >= 0
    /\ player.jump_count <= max_jumps

\* a jump() has used the last jump
C9_Witness ==
    /\ last.op = "jump"
    /\ last.ret
    /\ player.jump_count = max_jumps

\* C10: a Sticking player has on_ground True, and update() applies the
\* ground-friction factor to it and leaves on_ground True.
C10_StickingIsGrounded ==
    Sticking =>
        /\ player.on_ground
        /\ Player_update_integrate(player).on_ground
        /\ Player_update_integrate(player).velocity_x
               = RoundToGrid(player.velocity_x * FRICTION)

\* an update() of a moving Sticking player has left it Sticking
C10_Witness ==
    /\ last.op = "update"
    /\ last.was = MAGNETIC_STATE_STICKING
    /\ Sticking
    /\ player.facing_right
    /\ player.x > 80

\* C11: in update(), a platform resolved as Floor that the player does not
\* stick to sets on_ground and jump_count 0; any other platform the player does
\* not stick to leaves on_ground and jump_count as they were; an update() of a
\* Normal player in which no platform is resolved as Floor or stuck to ends
\* with on_ground False.
C11_FloorGroundsOtherSidesDoNot ==
    \A arg \in UpdateArgs(platforms) :
        /\ \A k \in 1..Len(arg) :
              (Overlaps(arg, k) /\ ~SticksAt(arg, k)) =>
                  IF SideAt(arg, k) = ORIENTATION_FLOOR
                  THEN /\ AfterPlatform(arg, k).on_ground
                       /\ AfterPlatform(arg, k).jump_count = 0
                  ELSE /\ AfterPlatform(arg, k).on_ground = BeforePlatform(arg, k).on_ground
                       /\ AfterPlatform(arg, k).jump_count = BeforePlatform(arg, k).jump_count
        /\ (~Sticking /\ ~UpdateGrounds(player, platforms, arg)) =>
              ~Player_update(player, platforms, arg).on_ground

\* an update() has grounded a player with its boots off on the magnetic floor
C11_Witness ==
    /\ last.op = "update"
    /\ ~player.boots_active
    /\ player.on_ground
    /\ player.jump_count = 0
    /\ player.x >= 48
    /\ player.y + PLAYER_HEIGHT = 96

\* C12: an update() of a Sticking player with an empty platform list leaves
\* velocity_y as it was, scales velocity_x by the ground friction factor and
\* moves the position by the resulting velocity.
C12_StickingSuppressesGravity ==
    Sticking =>
        LET after == Player_update(player, platforms, << >>)
        IN  /\ after.velocity_y = player.velocity_y
            /\ after.velocity_x = RoundToGrid(player.velocity_x * FRICTION)
            /\ after.x = player.x + after.velocity_x
            /\ after.y = player.y + after.velocity_y

\* an update() has moved a Sticking player along a wall, its velocity_y kept
C12_Witness ==
    /\ last.op = "update"
    /\ last.was = MAGNETIC_STATE_STICKING
    /\ player.velocity_y # 0
    /\ player.velocity_x = 0

\* C13: apply_magnetic_force(force) adds the force to the velocity of a Normal
\* player and changes nothing else; it changes nothing of a Sticking player.
C13_ForceAddsUnlessSticking ==
    \A force \in Forces :
        Player_apply_magnetic_force(player, force) =
            IF Sticking
            THEN player
            ELSE [player EXCEPT !.velocity_x = player.velocity_x + force[1],
                                !.velocity_y = player.velocity_y + force[2]]

\* a force has been added to the velocity of a Normal player that was moving
C13_Witness ==
    /\ last.op = "force"
    /\ last.was = MAGNETIC_STATE_NORMAL
    /\ player.velocity_x # 0
    /\ player.velocity_y # 0

Depth(body, plat) ==
    [s \in Orientations |->
        CASE s = ORIENTATION_FLOOR -> (body[2] + body[4]) - plat[2]
          [] s = ORIENTATION_CEILING -> (plat[2] + plat[4]) - body[2]
          [] s = ORIENTATION_WALL_RIGHT -> (body[1] + body[3]) - plat[1]
          [] s = ORIENTATION_WALL_LEFT -> (plat[1] + plat[3]) - body[1]]

\* the directional guard of a side
GuardPasses(s, velocity) ==
    CASE s = ORIENTATION_FLOOR -> velocity[2] >= 0
      [] s = ORIENTATION_CEILING -> velocity[2] <= 0
      [] s = ORIENTATION_WALL_RIGHT -> velocity[1] >= 0
      [] s = ORIENTATION_WALL_LEFT -> velocity[1] <= 0

\* the sides of minimum depth whose guard passes
PassingSides(body, plat, velocity) ==
    {s \in Orientations :
        /\ \A t \in Orientations : Depth(body, plat)[s] <= Depth(body, plat)[t]
        /\ GuardPasses(s, velocity)}

\* C15: resolve_collision returns a side of minimum penetration depth whose
\* directional guard passes; if there is none it returns the position and the
\* velocity it was given and the empty side, also when the guard of a deeper
\* side passes.  Body (50,90,20,20), platform (0,100,200,20), velocity (0,5)
\* give side Floor, vy 0, y 80.
C15_ResolveAlongMinimumAxis ==
    /\ last.op = "resolve_collision" =>
          LET passing == PassingSides(last.player_rect, last.platform_rect, last.velocity)
          IN  IF passing = {}
              THEN last.result = [pos |-> <<last.player_rect[1], last.player_rect[2]>>,
                                  vel |-> last.velocity, side |-> ""]
              ELSE last.result.side \in passing
    /\ resolve_collision(<<50, 90, 20, 20>>, <<0, 100, 200, 20>>, <<0, 5>>)
           = [pos |-> <<50, 80>>, vel |-> <<0, 0>>, side |-> ORIENTATION_FLOOR]

\* resolve_collision has returned the empty side for overlapping rects while
\* the guard of a deeper side passes
C15_Witness ==
    /\ last.op = "resolve_collision"
    /\ check_rect_collision(last.player_rect, last.platform_rect)
    /\ last.result.side = ""
    /\ \E s \in Orientations : GuardPasses(s, last.velocity)

\* C16: when resolve_collision is called on rects that overlap and returns a
\* side, the body at the returned position touches the platform at an edge and
\* check_rect_collision of the two is False; the velocity along the resolved
\* axis is 0, and the other velocity component and the other coordinate are
\* the ones passed.
C16_ResolvedBodyNoLongerOverlaps ==
    ( /\ last.op = "resolve_collision"
      /\ check_rect_collision(last.player_rect, last.platform_rect)
      /\ last.result.side # "" ) =>
        LET r == last.result
            body == <<r.pos[1], r.pos[2], last.player_rect[3], last.player_rect[4]>>
            vertical == r.side \in {ORIENTATION_FLOOR, ORIENTATION_CEILING}
        IN  /\ ~check_rect_collision(body, last.platform_rect)
            /\ Depth(body, last.platform_rect)[r.side] = 0
            /\ IF vertical
               THEN /\ r.vel = <<last.velocity[1], 0>>
                    /\ r.pos[1] = last.player_rect[1]
               ELSE /\ r.vel = <<0, last.velocity[2]>>
                    /\ r.pos[2] = last.player_rect[2]

\* resolve_collision has pushed an overlapping body out of a platform sideways
C16_Witness ==
    /\ last.op = "resolve_collision"
    /\ check_rect_collision(last.player_rect, last.platform_rect)
    /\ last.result.side = ORIENTATION_WALL_LEFT
    /\ last.result.pos[1] # last.player_rect[1]

\* C17: free-fall gravity steps started within MAX_FALL_SPEED keep the
\* vertical velocity of the player and of the enemy within MAX_FALL_SPEED, and
\* a body falling at MAX_FALL_SPEED goes on falling at MAX_FALL_SPEED.
C17_GravityClamp ==
    /\ [](Abs(player.velocity_y) <= MAX_FALL_SPEED)
    /\ [](Abs(falling.velocity_y) <= MAX_FALL_SPEED)
    /\ [][ /\ (last'.op = "apply_gravity" /\ player.velocity_y = MAX_FALL_SPEED) =>
                  player'.velocity_y = MAX_FALL_SPEED
           /\ (last'.op = "enemy_update" /\ falling.velocity_y = MAX_FALL_SPEED) =>
                  falling'.velocity_y = MAX_FALL_SPEED ]_vars

\* a gravity step of the player has been cut off at MAX_FALL_SPEED, the enemy
\* falling below its start at that speed too
C17_Witness ==
    /\ last.op = "apply_gravity"
    /\ last.before < MAX_FALL_SPEED
    /\ last.before + GRAVITY > MAX_FALL_SPEED
    /\ player.velocity_y = MAX_FALL_SPEED
    /\ falling.velocity_y = MAX_FALL_SPEED
    /\ falling.y > 0

\* C18: after any number of update() calls, for any speed, progress is within
\* 0..1 (0..100 percent), direction is -1 or 1, it is -1 when progress is 1
\* and 1 when progress is 0, and the position is start + (end - start) x progress.
C18_ProgressWithinPath ==
    /\ moving.progress >= 0
    /\ moving.progress <= 100
    /\ moving.direction \in {-1, 1}
    /\ moving.progress = 100 => moving.direction = -1
    /\ moving.progress = 0 => moving.direction = 1
    /\ 100 * (moving.x - moving.start_x) = (moving.end_x - moving.start_x) * moving.progress
    /\ 100 * (moving.y - moving.start_y) = (moving.end_y - moving.start_y) * moving.progress

\* an update() that would have overshot the end waypoint has left the
\* platform on it, turned around
C18_Witness ==
    /\ last.op = "update"
    /\ last.before < 100
    /\ last.before + moving.speed > 100
    /\ moving.progress = 100
    /\ moving.direction = -1
    /\ moving.x = moving.end_x
    /\ moving.y = moving.end_y

\* C19: a platform with speed > 0 is at its end waypoint (progress 1) and at
\* its start waypoint (progress 0) again and again; an update() that does not
\* arrive at a waypoint changes progress by speed x 0.01 in the direction of
\* travel and keeps the direction, and the update() that arrives moves it the
\* same way by at most that much.
C19_PingPongForever ==
    /\ []<>(moving.speed > 0 =>
                /\ moving.progress = 100
                /\ moving.x = moving.end_x
                /\ moving.y = moving.end_y)
    /\ []<>(moving.speed > 0 =>
                /\ moving.progress = 0
                /\ moving.x = moving.start_x
                /\ moving.y = moving.start_y)
    /\ [][ (moving.speed > 0 /\ last'.op = "update") =>
               LET change == (moving'.progress - moving.progress) * moving.direction
               IN  IF moving'.progress \in {0, 100}
                   THEN /\ change >= 0
                        /\ change <= moving.speed
                        /\ moving'.direction = IF moving'.progress = 100 THEN -1 ELSE 1
                   ELSE /\ change = moving.speed
                        /\ moving'.direction = moving.direction ]_vars

\* a platform that left its start waypoint is back on it, about to leave again
C19_Witness ==
    /\ last.op = "update"
    /\ moving.speed > 0
    /\ last.before > 0
    /\ last.before < moving.speed
    /\ moving.progress = 0
    /\ moving.direction = 1
    /\ moving.x = moving.start_x

\* the whole number of pixels below the root of q
FloorRoot(q) == CHOOSE n \in 0..200 : n * n <= q /\ (n + 1) * (n + 1) > q

\* a force component returned for the offset d of the centre from the point
\* is the rounding to the velocity grid of
\* sign x d / distance x strength x (1 - distance / range)^2, a value that
\* falls with the distance, where the distance lies between lo and hi
ComponentMatches(f, d, sign, lo, hi) ==
    LET mag == f * sign * (IF d < 0 THEN -1 ELSE 1)
        R == magnet.range
        most == Abs(d) * magnet.strength * (R - lo) * (R - lo)
        least == IF hi >= R THEN 0 ELSE Abs(d) * magnet.strength * (R - hi) * (R - hi)
    IN  /\ mag >= 0
        /\ 2 * mag * lo * R * R <= 2 * most + Resolution * lo * R * R
        /\ 2 * mag * hi * R * R >= 2 * least - Resolution * hi * R * R

PointsAround ==
    { <<magnet.x + dx, magnet.y + dy>> :
        dx \in PointOffsets, dy \in PointOffsets } \ { <<magnet.x, magnet.y>> }

Negated(force) == << -force[1], -force[2] >>

\* C21: of two magnets that differ in polarity only, the Repel one exerts at
\* every point other than the centre the exact negation, in both components,
\* of the force of the Attract one; and set_polarity switching a magnet from
\* one polarity to the other negates its force at every point.
C21_RepelNegatesAttract ==
    /\ [](\A p \in PointsAround :
            Magnet_get_force_on_object(
                [magnet EXCEPT !.polarity = POLARITY_REPEL], p)
            = Negated(Magnet_get_force_on_object(
                [magnet EXCEPT !.polarity = POLARITY_ATTRACT], p)))
    /\ [][(/\ last'.op = "set_polarity"
           /\ last'.polarity \in {POLARITY_ATTRACT, POLARITY_REPEL}
           /\ last'.polarity # magnet.polarity)
          => \A p \in PointsAround \cup { <<magnet.x, magnet.y>> } :
                Magnet_get_force_on_object(magnet', p)
                = Negated(Magnet_get_force_on_object(magnet, p))]_vars

\* an attracting magnet that is switched on has been made a repelling one,
\* and pushes a point inside its range away
C21_Witness ==
    /\ last.op = "set_polarity"
    /\ last.was = POLARITY_ATTRACT
    /\ magnet.polarity = POLARITY_REPEL
    /\ magnet.active
    /\ Magnet_get_force_on_object(magnet, <<magnet.x + 16, magnet.y - 16>>)[1] > 0
    /\ Magnet_get_force_on_object(magnet, <<magnet.x + 16, magnet.y - 16>>)[2] < 0

\* the distance of a point from the centre of the magnet, as
\* calculate_magnetic_force computes it
DistanceOf(p) == calculate_distance(p, Magnet_position(magnet))

\* the magnitude that calculate_magnetic_force computes for a point
MagnitudeAt(p) == force_magnitude(DistanceOf(p), magnet.range, magnet.strength)

\* C22: for an active Attract magnet of range R and strength S > 0 the force
\* magnitude at distance d1 is strictly greater than at d2 whenever
\* 0 < d1 < d2 < R, and the force is exactly (0, 0) at any distance d >= R and
\* at d = 0.  The returned components are rounded to the velocity grid, so
\* along one ray the returned force never grows with the distance.
C22_ForceFallsWithDistance ==
    (/\ last.op = "get_force_on_object"
     /\ magnet.active
     /\ magnet.polarity = POLARITY_ATTRACT)
    => LET p1 == last.object_pos
           d1 == DistanceOf(p1)
           reach == SubPixel * magnet.range
       IN  /\ (d1 >= reach \/ d1 = 0) => last.result = <<0, 0>>
           /\ \A p2 \in PointsAround :
                (0 < d1 /\ d1 < DistanceOf(p2) /\ DistanceOf(p2) < reach)
                => /\ MagnitudeAt(p1)[2] = MagnitudeAt(p2)[2]
                   /\ MagnitudeAt(p1)[1] > MagnitudeAt(p2)[1]
                   /\ (p1[2] = magnet.y /\ p2[2] = magnet.y
                       /\ (p1[1] > magnet.x) = (p2[1] > magnet.x))
                      => Abs(last.result[1])
                         >= Abs(Magnet_get_force_on_object(magnet, p2)[1])

\* the force was asked for at a point inside the range, where it is not zero,
\* and other points lie farther out and still inside the range
C22_Witness ==
    /\ last.op = "get_force_on_object"
    /\ magnet.active
    /\ magnet.polarity = POLARITY_ATTRACT
    /\ last.result # <<0, 0>>
    /\ \E p2 \in PointsAround :
          /\ DistanceOf(last.object_pos) < DistanceOf(p2)
          /\ DistanceOf(p2) < SubPixel * magnet.range
          /\ Magnet_get_force_on_object(magnet, p2) # <<0, 0>>
          /\ Magnet_get_force_on_object(magnet, p2) # last.result

\* what magnet i of the level adds to the total force at p, active or not
Contribution(i, p) ==
    LET m == levels[1].magnets[i]
    IN  calculate_magnetic_force(p, <<m.x, m.y>>, m.range, m.strength, m.polarity)

\* the sum of the contributions of the magnets with an index in S
RECURSIVE SumOfContributions(_, _)
SumOfContributions(S, p) ==
    IF S = {}
    THEN <<0, 0>>
    ELSE LET i == CHOOSE j \in S : TRUE
             rest == SumOfContributions(S \ {i}, p)
         IN  << rest[1] + Contribution(i, p)[1], rest[2] + Contribution(i, p)[2] >>

ActiveMagnets == { i \in 1..Len(levels[1].magnets) : levels[1].magnets[i].active }

\* two magnets alike in all but the place, mirror images of one another in p
Mirrored(i, j, p) ==
    LET a == levels[1].magnets[i]
        b == levels[1].magnets[j]
    IN  /\ a.polarity = POLARITY_ATTRACT
        /\ [a EXCEPT !.x = 0, !.y = 0] = [b EXCEPT !.x = 0, !.y = 0]
        /\ a.x + b.x = 2 * p[1]
        /\ a.y + b.y = 2 * p[2]
        /\ <<a.x, a.y>> # <<b.x, b.y>>

\* C23: get_total_magnetic_force(p) is the component-wise sum of the forces of
\* all active magnets: (0, 0) without magnets, nothing from an inactive
\* magnet; toggling a magnet off takes exactly its contribution out of the
\* total and toggling it on puts it back; two identical active Attract
\* magnets that mirror one another in p add nothing to the total at p.
C23_TotalForceIsSumOfActive ==
    /\ [](last.op = "get_total_magnetic_force" =>
            /\ last.result = SumOfContributions(ActiveMagnets, last.position)
            /\ Len(levels[1].magnets) = 0 => last.result = <<0, 0>>
            /\ \A i, j \in ActiveMagnets :
                  Mirrored(i, j, last.position)
                  => last.result
                     = SumOfContributions(ActiveMagnets \ {i, j}, last.position))
    /\ [][last'.op = "toggle" =>
            \A p \in FieldPoints :
               LET before == Level_get_total_magnetic_force(levels[1], p)
                   after == Level_get_total_magnetic_force(levels[1]', p)
                   own == Contribution(last'.index, p)
               IN  IF levels[1].magnets[last'.index].active
                   THEN after = << before[1] - own[1], before[2] - own[2] >>
                   ELSE after = << before[1] + own[1], before[2] + own[2] >>]_vars

\* the total was asked for midway between two active magnets that mirror one
\* another, with a third active magnet that alone makes up the total, and a
\* magnet of the level pulls at that point
C23_Witness ==
    /\ last.op = "get_total_magnetic_force"
    /\ \E i, j \in ActiveMagnets :
          /\ Mirrored(i, j, last.position)
          /\ Contribution(i, last.position) # <<0, 0>>
    /\ last.result # <<0, 0>>
    /\ Len(levels[1].magnets) = 3

\* the moving platforms of the level
MovingPlatforms ==
    { levels[1].platforms[i] : i \in { j \in 1..Len(levels[1].platforms) :
                                         levels[1].platforms[j].class = "MovingPlatform" } }

\* the place of a moving platform after n further calls of update()
RECURSIVE PlaceAfter(_, _)
PlaceAfter(p, n) ==
    IF n = 0 THEN <<p.x, p.y>> ELSE PlaceAfter(MovingPlatform_update(p), n - 1)

\* C24: in every state reached by update() calls, a MovingPlatform p and
\* MovingPlatform.from_dict(p.to_dict()) have the same start and end
\* waypoints, speed, progress and direction, and so are at the same places
\* under further update() calls.
C24_MovingPlatformRoundTrip ==
    \A p \in MovingPlatforms :
        LET restored == MovingPlatform_from_dict(MovingPlatform_to_dict(p))
        IN  /\ restored.start_x = p.start_x
            /\ restored.start_y = p.start_y
            /\ restored.end_x = p.end_x
            /\ restored.end_y = p.end_y
            /\ restored.speed = p.speed
            /\ restored.progress = p.progress
            /\ restored.direction = p.direction
            /\ \A n \in 0..4 : PlaceAfter(restored, n) = PlaceAfter(p, n)

\* the class and the saved box of every entity of a list, in the order of the list
Variants(entities) ==
    [i \in 1..Len(entities) |->
        <<entities[i].class, entities[i].x, entities[i].y,
          entities[i].width, entities[i].height>>]

\* C25: in every reachable state - also after toggle() and set_polarity() -
\* from_dict(to_dict(e)) has the values of e in all attributes, for every Magnet
\* (x, y, polarity, range, strength, width, height, active) and every static
\* Platform (x, y, width, height, is_magnetic, orientation); and
\* Level.from_dict(level.to_dict()) restores every platform, magnet and enemy
\* with its variant (MovingPlatform, Platform; Enemy, PatrolEnemy,
\* FlyingEnemy) and in its place in the list.
C25_RoundTripKeepsEntities ==
    /\ [](/\ \A i \in 1..Len(levels[1].magnets) :
               Magnet_from_dict(Magnet_to_dict(levels[1].magnets[i]))
               = levels[1].magnets[i]
          /\ \A i \in 1..Len(levels[1].platforms) :
               levels[1].platforms[i].class = "Platform"
               => Platform_from_dict(Platform_to_dict(levels[1].platforms[i]))
                  = levels[1].platforms[i])
    /\ [][last'.op = "save_and_load" =>
            /\ levels[1]'.magnets = levels[1].magnets
            /\ Variants(levels[1]'.platforms) = Variants(levels[1].platforms)
            /\ Variants(levels[1]'.enemies) = Variants(levels[1].enemies)
            /\ \A i \in 1..Len(levels[1].platforms) :
                  levels[1].platforms[i].class = "Platform"
                  => levels[1]'.platforms[i] = levels[1].platforms[i]]_vars

\* a level was saved and loaded after its magnet was switched off and made
\* attracting, its platform had moved and its patrolling enemy had walked
C25_Witness ==
    /\ last.op = "save_and_load"
    /\ ~magnet.active
    /\ magnet.polarity = POLARITY_ATTRACT
    /\ Magnet_to_dict(magnet).width # Magnet_to_dict(magnet).height
    /\ levels[1].platforms[1].class = "MovingPlatform"
    /\ levels[1].platforms[1].x # 16
    /\ levels[1].platforms[2].class = "Platform"
    /\ levels[1].platforms[2].is_magnetic
    /\ levels[1].enemies[1].class = "FlyingEnemy"
    /\ levels[1].enemies[2].class = "Enemy"
    /\ levels[1].enemies[3].class = "PatrolEnemy"
    /\ levels[1].enemies[3].x # 96

\* the place and the velocity of an enemy
Kinematics(e) == <<e.x, e.y, e.velocity_x, e.velocity_y>>

\* C26: an enemy with alive = False keeps its x, y, velocity_x and velocity_y
\* under its own update() (Enemy, PatrolEnemy and FlyingEnemy) and under
\* Level.update(), whatever magnets and platforms the level has and however
\* many ticks pass.
C26_DeadEnemiesStay ==
    /\ [](\A i \in 1..Len(levels[1].enemies) :
            ~levels[1].enemies[i].alive
            => Kinematics(update_enemy(levels[1].enemies[i], levels[1].platforms))
               = Kinematics(levels[1].enemies[i]))
    /\ [][last'.op = "update" =>
            \A i \in 1..Len(levels[1].enemies) :
               ~levels[1].enemies[i].alive
               => Kinematics(levels[1]'.enemies[i])
                  = Kinematics(levels[1].enemies[i])]_vars

\* C27: Game._start_level(i) with an index outside 0 .. len(levels) - 1
\* changes nothing (state, current_level, current_level_index, player) and
\* raises no error; with a valid index it sets current_level_index to i,
\* current_level to levels[i], player to a new Player at that level's
\* player_start and state to PLAYING, and leaves the levels as they are.
C27_StartLevelChecksIndex ==
    [][last'.op = "start_level" =>
         LET i == last'.level_index
         IN  IF i < 0 \/ i > Len(levels) - 1
             THEN /\ game' = game
                  /\ player' = player
                  /\ levels' = levels
             ELSE /\ game'.current_level_index = i
                  /\ game'.current_level = i
                  /\ current_level_of(World)' = levels[i + 1]
                  /\ player' = Player(levels[i + 1].player_start[1],
                                      levels[i + 1].player_start[2])
                  /\ game'.state = "PLAYING"
                  /\ levels' = levels]_vars

\* _start_level(-1) was called when a player had completed the second
\* level, and left all as it was
C27_Witness ==
    /\ last.op = "start_level"
    /\ last.level_index = -1
    /\ game.state = "LEVEL_COMPLETE"
    /\ game.current_level_index = 1
    /\ player # None
    /\ player # Player(levels[2].player_start[1], levels[2].player_start[2])

\* the level of this tick as the tick leaves it
LevelAfterTick == levels'[game.current_level + 1]

\* a living enemy of the level, as the tick leaves it, overlaps the player
\* as the tick leaves it
EnemyHitsAfterTick ==
    \E i \in 1..Len(LevelAfterTick.enemies) :
        /\ LevelAfterTick.enemies[i].alive
        /\ check_rect_collision(Enemy_rect(LevelAfterTick.enemies[i]), Player_rect(player'))

GoalReachedAfterTick ==
    check_rect_collision(Player_rect(player'), Level_goal_rect(LevelAfterTick))

FellOffAfterTick == player'.y > LevelAfterTick.height + 100

\* C28 as stated: a PLAYING tick without pause or restart input ends in
\* LEVEL_COMPLETE if the player rect after that tick's player.update()
\* overlaps the goal rect, in GAME_OVER if the player's y after the update is
\* greater than level.height + 100, and otherwise stays PLAYING.
C28_GoalOrFallOrPlaying ==
    [][PhysicsRuns(World, input') =>
         /\ GoalReachedAfterTick => game'.state = "LEVEL_COMPLETE"
         /\ FellOffAfterTick => game'.state = "GAME_OVER"
         /\ (~GoalReachedAfterTick /\ ~FellOffAfterTick) => game'.state = "PLAYING"]_vars

\* C28, amended: the checks of a PLAYING tick without pause or restart input
\* see the player as that tick's player.update() left it and the enemies as
\* that tick's level.update() left them: the tick ends in GAME_OVER if a
\* living enemy overlaps the player; else in LEVEL_COMPLETE if the player
\* overlaps the goal rect; else in GAME_OVER if player.y > level.height + 100;
\* else the state stays PLAYING.
C28_EnemyThenGoalThenFall ==
    [][PhysicsRuns(World, input') =>
         game'.state = IF EnemyHitsAfterTick THEN "GAME_OVER"
                       ELSE IF GoalReachedAfterTick THEN "LEVEL_COMPLETE"
                       ELSE IF FellOffAfterTick THEN "GAME_OVER"
                       ELSE "PLAYING"]_vars

\* a tick has ended in GAME_OVER with the player inside the level and on an enemy
C28_Witness ==
    /\ last.op = "frame"
    /\ game.state = "GAME_OVER"
    /\ player.y <= current_level_of(World).height + 100
    /\ ~check_rect_collision(Player_rect(player), Level_goal_rect(current_level_of(World)))
    /\ \E i \in 1..Len(current_level_of(World).enemies) :
          Enemy_check_player_collision(current_level_of(World).enemies[i],
                                       Player_rect(player))

\* a tick of a game that has a player in a level, with the pause key just pressed
PauseTick(state) ==
    /\ game.state = state
    /\ player # None
    /\ game.current_level # NoLevel
    /\ is_action_just_pressed(input', "pause")

\* C29 as stated: a pause press while PLAYING sets PAUSED in that tick and
\* runs nothing of the simulation; while PAUSED no tick changes any player,
\* platform, magnet or enemy state; a pause press while PAUSED returns to
\* PLAYING with the simulation as it was.
C29_PausedTicksChangeNothing ==
    /\ [][PauseTick("PLAYING") =>
            game'.state = "PAUSED" /\ player' = player /\ levels' = levels]_vars
    /\ [][game.state = "PAUSED" => player' = player /\ levels' = levels]_vars
    /\ [][PauseTick("PAUSED") =>
            game'.state = "PLAYING" /\ player' = player /\ levels' = levels]_vars

\* C29, amended: a pause press while PLAYING sets PAUSED in that tick and
\* leaves player and level as they were; a PAUSED tick with a pause press
\* returns to PLAYING and leaves player and level as they were; a PAUSED tick
\* with a restart press and no pause press restarts the level (the player
\* reset to player_start, every enemy alive again, state PLAYING); any other
\* PAUSED tick leaves state, player and level as they were.
C29_PauseFreezesUntilRestart ==
    /\ [][PauseTick("PLAYING") =>
            game'.state = "PAUSED" /\ player' = player /\ levels' = levels]_vars
    /\ [][PauseTick("PAUSED") =>
            game'.state = "PLAYING" /\ player' = player /\ levels' = levels]_vars
    /\ [][(game.state = "PAUSED" /\ ~is_action_just_pressed(input', "pause")) =>
            IF is_action_just_pressed(input', "restart")
            THEN LET level == current_level_of(World)
                 IN  /\ game'.state = "PLAYING"
                     /\ player' = Player_reset(player, level.player_start[1],
                                               level.player_start[2])
                     /\ levels'[game.current_level + 1].platforms = level.platforms
                     /\ levels'[game.current_level + 1].magnets = level.magnets
                     /\ \A i \in 1..Len(level.enemies) :
                           levels'[game.current_level + 1].enemies[i]
                           = [level.enemies[i] EXCEPT !.alive = TRUE]
            ELSE /\ game'.state = "PAUSED"
                 /\ player' = player
                 /\ levels' = levels]_vars

\* the game is paused with the player in the air and the moving platform of
\* the level on its way
C29_Witness ==
    /\ last.op = "frame"
    /\ game.state = "PAUSED"
    /\ ~player.on_ground
    /\ player.velocity_y # 0
    /\ \E i \in 1..Len(current_level_of(World).platforms) :
          /\ current_level_of(World).platforms[i].class = "MovingPlatform"
          /\ current_level_of(World).platforms[i].progress \notin {0, 100}

\* a tick in LEVEL_COMPLETE with the jump key just pressed
JumpAtLevelComplete ==
    /\ game.state = "LEVEL_COMPLETE"
    /\ is_action_just_pressed(input', "jump")

\* C30: from LEVEL_COMPLETE a jump press starts level current_level_index + 1
\* (a new Player at its player_start, state PLAYING) when there is one, and
\* after the last level sets state MENU and leaves current_level_index as it
\* is.  No other tick outside the menu changes current_level_index, and
\* LEVEL_COMPLETE is only entered with an index of the list; so a series of
\* completions from any level goes through strictly growing indices and ends
\* in MENU after at most len(levels) completions.
C30_NextLevelOrMenu ==
    /\ [][JumpAtLevelComplete =>
            LET next_index == game.current_level_index + 1
            IN  IF next_index <= Len(levels) - 1
                THEN /\ game'.current_level_index = next_index
                     /\ game'.current_level = next_index
                     /\ player' = Player(levels[next_index + 1].player_start[1],
                                         levels[next_index + 1].player_start[2])
                     /\ game'.state = "PLAYING"
                     /\ levels' = levels
                ELSE /\ game'.state = "MENU"
                     /\ game'.current_level_index = game.current_level_index
                     /\ player' = player
                     /\ levels' = levels]_vars
    /\ [][(game.state # "MENU" /\ ~JumpAtLevelComplete) =>
            game'.current_level_index = game.current_level_index]_vars
    /\ [](game.state = "LEVEL_COMPLETE" =>
            /\ game.current_level_index \in 0..(Len(levels) - 1)
            /\ game.current_level = game.current_level_index)

\* the last level was completed and the jump key has led back to the menu
C30_Witness ==
    /\ last.op = "frame"
    /\ game.state = "MENU"
    /\ "K_SPACE" \in input.keys_just_pressed
    /\ game.current_level_index = Len(levels) - 1
    /\ player # None

\* the restart action is handled in the frame that leads to the next state
RestartHandled ==
    /\ game.running
    /\ last'.op = "frame"
    /\ player # None
    /\ game.current_level # NoLevel
    /\ is_action_just_pressed(input', "restart")
    /\ \/ game.state \in {"PLAYING", "PAUSED"} /\ ~is_action_just_pressed(input', "pause")
       \/ game.state = "GAME_OVER"

\* the enemies of the level as a restart leaves them
Revived(enemies) == [i \in 1..Len(enemies) |-> [enemies[i] EXCEPT !.alive = TRUE]]

\* the player is in the state a restart of the current level leaves it in
AtStart ==
    LET level == levels[game.current_level + 1]
    IN  /\ player.x = level.player_start[1]
        /\ player.y = level.player_start[2]
        /\ Player_velocity(player) = <<0, 0>>
        /\ player.magnetic_state = MAGNETIC_STATE_NORMAL
        /\ player.boots_active

\* C31: a restart that is handled while PLAYING, PAUSED or GAME_OVER with a
\* level loaded puts the player at the level's player_start with zero
\* velocity, Normal and with boots active, sets the state to PLAYING and
\* every enemy of the level alive; neither a kill nor a restart changes the
\* number or the order of the enemies.
C31_RestartResetsLevel ==
    [][/\ RestartHandled =>
            /\ game'.state = "PLAYING"
            /\ game'.current_level = game.current_level
            /\ AtStart'
            /\ \A i \in 1..Len(levels'[game.current_level + 1].enemies) :
                   levels'[game.current_level + 1].enemies[i].alive
       /\ (RestartHandled \/ last'.op = "kill") =>
            \A l \in 1..Len(levels) :
                Revived(levels'[l].enemies) = Revived(levels[l].enemies)]_vars

C31_Witness ==
    /\ last.op = "frame"
    /\ game.state = "PLAYING"
    /\ game.current_level = 1
    /\ is_action_just_pressed(input, "restart")
    /\ AtStart
    /\ \A i \in 1..2 : levels[2].enemies[i].alive

\* C32: after reset(x, y) every attribute of the player equals that of a new
\* Player(x, y): position, velocity, magnetic_state, current_surface,
\* current_orientation, on_ground, facing_right, boots_active and jump_count
\* (max_jumps, width and height are never assigned after __init__).
C32_ResetEqualsNewPlayer ==
    last.op = "reset" => \E s \in Starts : player = Player(s[1], s[2])

\* the actions that are queried: one with two keys, one with one key, the name
\* of an alternative binding, and two names without a binding
QueriedActions == {"move_left", "jump", "move_left_alt", "unknown_action", "fly"}

\* the keys bound to an action
KeysOf(action) == {Binding(action), AltBinding(action)} \ {NoKey}

\* the event list has an event of the given type for a key of the action
HasEvent(events, type, action) ==
    \E k \in 1..Len(events) :
        events[k].type = type /\ events[k].key \in KeysOf(action)

\* C33: is_action_just_pressed(action) is true exactly after the update whose
\* event list has a KEYDOWN of a key of the action, and so false after any
\* later update without one; is_action_pressed(action) stays true through
\* every update without a KEYUP of a key of the action and becomes true only
\* by a KEYDOWN; an action name without a binding yields False from every query.
C33_EdgeTriggeredInput ==
    /\ [](\A action \in QueriedActions :
            /\ is_action_just_pressed(input, action)
                   <=> HasEvent(last.events, "KEYDOWN", action)
            /\ KeysOf(action) = {} =>
                   /\ ~is_action_pressed(input, action)
                   /\ ~is_action_just_pressed(input, action)
                   /\ ~is_action_just_released(input, action))
    /\ [][\A action \in QueriedActions :
            /\ (is_action_pressed(input, action)
                    /\ ~HasEvent(last'.events, "KEYUP", action))
                   => is_action_pressed(input', action)
            /\ (~is_action_pressed(input, action) /\ is_action_pressed(input', action))
                   => HasEvent(last'.events, "KEYDOWN", action)]_vars

\* a key that went down in an earlier update is still held: the action is
\* pressed and no longer just pressed
C33_Witness ==
    /\ last.op = "update"
    /\ is_action_pressed(input, "jump")
    /\ ~is_action_just_pressed(input, "jump")
    /\ is_action_just_pressed(input, "move_left")
    /\ ~is_action_pressed(input, "move_left")

\* C34: a PatrolEnemy with speed s > 0 and patrol_distance d >= s that no
\* magnetic force acts on keeps x strictly between start_x - s and
\* start_x + d + s and velocity_x at +s or -s; an update that finds it at
\* x >= start_x + d turns it to direction -1, one that finds it at
\* x <= start_x turns it to +1, no other update turns it; and it turns in
\* both directions again and again.
C34_PatrolStaysAndTurns ==
    /\ [](/\ patrol.x > patrol.start_x - patrol.speed
          /\ patrol.x < patrol.start_x + patrol.patrol_distance + patrol.speed
          /\ patrol.velocity_x \in {patrol.speed, -patrol.speed}
          /\ patrol.velocity_x = patrol.direction * patrol.speed)
    /\ [][patrol'.direction =
            IF patrol.x >= patrol.start_x + patrol.patrol_distance THEN -1
            ELSE IF patrol.x <= patrol.start_x THEN 1
            ELSE patrol.direction]_vars
    /\ []<>(patrol.direction = -1)
    /\ []<>(patrol.direction = 1)

\* the enemy has overshot the end of its patrol, has turned and is back at
\* its start
C34_Witness ==
    /\ last.op = "update"
    /\ patrol.direction = -1
    /\ patrol.x = patrol.start_x
    /\ patrol.patrol_distance % patrol.speed # 0

\* update(arg) resolves a collision with the k-th platform of arg, a magnetic
\* platform whose orientation is the collision side, with the boots active,
\* and no other platform of arg overlaps the player
StuckBy(arg, k) ==
    /\ SticksAt(arg, k)
    /\ platforms[arg[k]].orientation = SideAt(arg, k)
    /\ \A j \in 1..Len(arg) : j # k => ~Overlaps(arg, j)

\* the player was left Sticking and at rest by an update, on a surface whose
\* orientation is the recorded one
Settled ==
    /\ last.op = "update"
    /\ Sticking
    /\ Player_velocity(player) = <<0, 0>>
    /\ player.current_surface # NoSurface
    /\ platforms[player.current_surface].orientation = player.current_orientation

\* C35: an update() that resolves a collision between a player with active
\* boots and a magnetic platform whose orientation is the returned collision
\* side, no other platform overlapping, ends with the player Sticking to that
\* platform; and every further update() right after leaves it Sticking to it
\* at the same position -- for Floor, Ceiling, WallLeft and WallRight alike.
C35_StickingIsStable ==
    [][last'.op = "update" =>
         \A arg \in UpdateArgs(platforms) :
             player' = Player_update(player, platforms, arg) =>
                 /\ \A k \in 1..Len(arg) :
                        StuckBy(arg, k) =>
                            /\ player'.magnetic_state = MAGNETIC_STATE_STICKING
                            /\ player'.current_surface = arg[k]
                 /\ Settled =>
                        /\ player'.magnetic_state = MAGNETIC_STATE_STICKING
                        /\ player'.current_surface = player.current_surface
                        /\ Player_position(player') = Player_position(player)]_vars

\* the player is Normal and at rest on top of the i-th platform, which is not
\* magnetic: its bottom edge on the platform's top, horizontally inside the
\* platform, zero velocity; and one tick of gravity sinks it by no more than
\* the platform's height and the horizontal overlaps
AtRestOn(i) ==
    /\ player.magnetic_state = MAGNETIC_STATE_NORMAL
    /\ ~platforms[i].is_magnetic
    /\ player.y + PLAYER_HEIGHT = platforms[i].y
    /\ player.x >= platforms[i].x
    /\ player.x + PLAYER_WIDTH <= platforms[i].x + platforms[i].width
    /\ Player_velocity(player) = <<0, 0>>
    /\ GRAVITY <= platforms[i].height
    /\ GRAVITY <= PLAYER_WIDTH

\* C36: an update(platforms) of a player that is Normal and at rest on top of
\* a platform of the list that is not magnetic leaves it with on_ground True,
\* velocity_y 0, jump_count 0 and the same x and y, and so at rest on the
\* platform for the next update.
C36_StandingIsStable ==
    [][last'.op = "update" =>
         \A arg \in UpdateArgs(platforms) :
             player' = Player_update(player, platforms, arg) =>
                 \A k \in 1..Len(arg) :
                     AtRestOn(arg[k]) =>
                         /\ player'.on_ground
                         /\ player'.velocity_y = 0
                         /\ player'.jump_count = 0
                         /\ Player_position(player') = Player_position(player)
                         /\ AtRestOn(arg[k])']_vars

\* the player stands on the ground after an update that found it standing there
C36_Witness ==
    /\ last.op = "update"
    /\ AtRestOn(1)
    /\ player.on_ground
    /\ player.x = 16

\* C37: a Normal player in a PLAYING game without input, with no magnet in
\* range and no platform or goal below, keeps falling: every tick raises
\* velocity_y by GRAVITY up to MAX_FALL_SPEED and, once it is positive, y
\* grows; the state stays PLAYING until the first tick that leaves
\* player.y > level.height + 100, which sets it to GAME_OVER; and that tick
\* comes.
C37_FallingEndsTheRun ==
    /\ [][game.state = "PLAYING" =>
            /\ input' = InputHandler_update(input, << >>)
            /\ [game |-> game', player |-> player', levels |-> levels']
                   = Game_update(World, input')
            /\ player'.magnetic_state = MAGNETIC_STATE_NORMAL
            /\ player'.velocity_y = Min2(player.velocity_y + GRAVITY, MAX_FALL_SPEED)
            /\ player'.y = player.y + player'.velocity_y
            /\ player'.velocity_y > 0 => player'.y > player.y
            /\ game'.state = IF player'.y > levels[1].height + 100
                             THEN "GAME_OVER" ELSE "PLAYING"]_vars
    /\ [](game.state = "GAME_OVER" => player.y > levels[1].height + 100)
    /\ <>(player.velocity_y = MAX_FALL_SPEED)
    /\ <>[](game.state = "GAME_OVER")

\* the run has ended below the level at full falling speed
C37_Witness ==
    /\ game.state = "GAME_OVER"
    /\ last.op = "frame"
    /\ player.y > levels[1].height + 100
    /\ player.velocity_y = MAX_FALL_SPEED

\* C38: whenever the state is PLAYING, PAUSED, LEVEL_COMPLETE or GAME_OVER,
\* player and current_level are not None, current_level_index is an index of
\* levels and current_level is levels[current_level_index]; menu_selection is
\* always an index of menu_options, and the menu's up and down keys move it
\* by one and wrap around at either end.
C38_LevelLoadedOutsideMenu ==
    /\ [](/\ game.state \in {"PLAYING", "PAUSED", "LEVEL_COMPLETE", "GAME_OVER"} =>
                /\ player # None
                /\ game.current_level # NoLevel
                /\ 0 <= game.current_level_index
                /\ game.current_level_index < Len(levels)
                /\ game.current_level = game.current_level_index
          /\ game.menu_selection \in 0..Len(menu_options) - 1)
    /\ [][(game.running /\ game.state = "MENU" /\ last'.op = "frame") =>
            game'.menu_selection =
                IF is_action_just_pressed(input', "move_up")
                THEN (IF game.menu_selection = 0 THEN Len(menu_options) - 1
                      ELSE game.menu_selection - 1)
                ELSE IF is_action_just_pressed(input', "move_down")
                THEN (IF game.menu_selection = Len(menu_options) - 1 THEN 0
                      ELSE game.menu_selection + 1)
                ELSE game.menu_selection]_vars

\* back in the menu after a level, the up key has wrapped the selection from
\* the first option to the last
C38_Witness ==
    /\ game.state = "MENU"
    /\ game.current_level # NoLevel
    /\ player # None
    /\ game.menu_selection = Len(menu_options) - 1
    /\ is_action_just_pressed(input, "move_up")

\* the changes of state a tick may make
StateChanges ==
    {<<"MENU", "PLAYING">>,
     <<"PLAYING", "PAUSED">>, <<"PLAYING", "LEVEL_COMPLETE">>, <<"PLAYING", "GAME_OVER">>,
     <<"PAUSED", "PLAYING">>,
     <<"LEVEL_COMPLETE", "PLAYING">>, <<"LEVEL_COMPLETE", "MENU">>,
     <<"GAME_OVER", "PLAYING">>, <<"GAME_OVER", "MENU">>}

\* what the handler of the state the tick starts in makes of the game
HandlerOfState(w, inp) ==
    CASE w.game.state = "MENU" -> Game_update_menu(w, inp)
      [] w.game.state = "PLAYING" -> Game_update_playing(w, inp)
      [] w.game.state = "PAUSED" -> Game_update_paused(w, inp)
      [] w.game.state = "LEVEL_COMPLETE" -> Game_update_level_complete(w, inp)
      [] w.game.state = "GAME_OVER" -> Game_update_game_over(w, inp)

\* C39: a tick leaves the state as it is or changes it from MENU to PLAYING,
\* from PLAYING to PAUSED, LEVEL_COMPLETE or GAME_OVER, from PAUSED to
\* PLAYING, from LEVEL_COMPLETE to PLAYING or MENU, or from GAME_OVER to
\* PLAYING or MENU; and its effect on the game, the player and the levels is
\* that of the one handler of the state it started in.
C39_StateChangesPerTick ==
    [][/\ game'.state = game.state \/ <<game.state, game'.state>> \in StateChanges
       /\ last'.op = "frame" =>
            \E stopped \in {game, [game EXCEPT !.running = FALSE]} :
                [game |-> game', player |-> player', levels |-> levels']
                    = HandlerOfState([game |-> stopped, player |-> player,
                                      levels |-> levels], input')]_vars

\* the pause key has taken a game that was over back to the menu
C39_Witness ==
    /\ last.op = "frame"
    /\ game.state = "MENU"
    /\ player # None
    /\ is_action_just_pressed(input, "pause")
    /\ game.current_level = 1
    /\ \A i \in 1..2 : levels[2].enemies[i].alive

\* the enemies of the current level whose rectangle overlaps the player's
Touching ==
    LET level == levels[game.current_level + 1]
    IN  {i \in 1..Len(level.enemies) :
            check_rect_collision(Enemy_rect(level.enemies[i]), Player_rect(player))}

\* those of them that are alive
TouchingAlive == {i \in Touching : levels[game.current_level + 1].enemies[i].alive}

\* the player's rectangle overlaps the goal of the current level
AtGoal ==
    check_rect_collision(Player_rect(player), Level_goal_rect(levels[game.current_level + 1]))

\* rectangles around the enemies of the hazard level
RectsAround == {<<x, y, PLAYER_WIDTH, PLAYER_HEIGHT>> : x \in {16, 32, 48}, y \in {16, 32}}

\* C40: after the physics of a PLAYING tick, a player whose rectangle overlaps
\* an enemy that is alive ends the tick in GAME_OVER, also when it overlaps the
\* goal; an enemy that is not alive collides with no rectangle and ends no
\* game: a player that overlaps the goal and no enemy that is alive ends the
\* tick in LEVEL_COMPLETE, whatever dead enemies it overlaps, and GAME_OVER
\* comes only from an enemy that is alive or from the fall out of the level.
C40_AliveEnemiesBeforeGoal ==
    /\ [][(PhysicsRuns(World, input') /\ last'.op = "frame") =>
            /\ TouchingAlive' # {} => game'.state = "GAME_OVER"
            /\ (TouchingAlive' = {} /\ AtGoal') => game'.state = "LEVEL_COMPLETE"
            /\ game'.state = "GAME_OVER" =>
                   \/ TouchingAlive' # {}
                   \/ player'.y > levels[game.current_level + 1].height + 100]_vars
    /\ [](\A l \in 1..Len(levels) : \A i \in 1..Len(levels[l].enemies) :
            ~levels[l].enemies[i].alive =>
                \A rect \in RectsAround :
                    ~Enemy_check_player_collision(levels[l].enemies[i], rect))

\* the player has walked into the goal and into the enemy that stands in it:
\* the game is over, the level is not complete
C40_Witness ==
    /\ last.op = "frame"
    /\ game.state = "GAME_OVER"
    /\ game.current_level # NoLevel
    /\ player # None
    /\ AtGoal
    /\ TouchingAlive # {}

====
